---- MODULE Spec2Model ----
(***************************************************************************)
(* A model of the game-launcher backend (src/game-launcher/backend.py):    *)
(* the catalog pipeline (collect, merge, filter, fetch images, sort) and   *)
(* the TTL image cache with its durable store.                             *)
(*                                                                         *)
(* Text is modelled as a sequence of tokens.  Names, categories and        *)
(* keywords are sequences of one-character tokens, so that lower(),        *)
(* substring tests and string comparison are computed as Python computes   *)
(* them.  Image references are sequences of coarser tokens (a host, an id, *)
(* a file name); the empty sequence is the empty string.                   *)
(***************************************************************************)
EXTENDS Integers, Sequences, FiniteSets, TLC

VARIABLES
    config,        \* GameLauncher.config (the sections the pipeline reads)
    pc,            \* position of get_all_games / merge_games
    game,          \* the record the running loop of merge_games is at (<<>> between loops)
    included,      \* what should_include_game(game) returned for the current record
    n,             \* number of records the current loop has consumed
    games_dict,    \* merge_games' games_dict: an insertion-ordered dict, as a sequence
    manual_games,  \* the records load_manual_games returned that the loop has consumed
    games,         \* the list `games` (list(games_dict.values()), then fetched, sorted)
    tasks,         \* fetch_images_parallel: index -> state of the record's task
    cache,         \* ImageCache.cache (in memory)
    cache_file,    \* the durable store (image_cache.json)
    now,           \* datetime.now(), in ticks
    op,            \* the last cache/resolver operation and what it returned
    outputs,       \* per-collector outputs handed to the merger (order study)
    merged,        \* the catalog merged from `outputs`
    controller     \* OpenRGBController: its fields, its caller and its animation threads

vars == <<config, pc, game, included, n, games_dict, manual_games, games, tasks,
          cache, cache_file, now, op, outputs, merged, controller>>

pipelineVars == <<pc, game, included, n, games_dict, manual_games, games, tasks>>
cacheVars == <<cache, cache_file, now, op>>
launcherVars == <<config, pc, game, included, n, games_dict, manual_games, games, tasks,
                  cache, cache_file, now, op, outputs, merged>>

\* OpenRGBController.__init__: current_mode "off", not running, no animation
\* thread (0); its caller is idle and no thread exists.
NoController ==
    [pc |-> "idle", mode |-> "off", running |-> FALSE, current_mode |-> "off",
     animation_thread |-> 0, threads |-> <<>>, waited |-> 0, calls |-> 0]

---------------------------------------------------------------------------
(* Bounds of the model *)

\* Longest list a collector returns.
MaxPerSource == 2
\* Last tick of the clock.
MaxTime == 3
\* Longest list of the collectors held to one record in the order study.
MaxSolo == 1
\* Largest worker limit (steamgriddb.max_workers) of the fetch study.
MaxWorkers == 2
\* calls of OpenRGBController.start_mode in a behaviour
MaxCalls == 3

---------------------------------------------------------------------------
(* Text *)

UpperCase == <<"A","B","C","D","E","F","G","H","I","J","K","L","M","N","O","P","Q","R","S","T","U","V","W","X","Y","Z">>
LowerCase == <<"a","b","c","d","e","f","g","h","i","j","k","l","m","n","o","p","q","r","s","t","u","v","w","x","y","z">>
\* The characters in code-point order.
CodePoints == <<" ","-","0","1","2","3","4","5","6","7","8","9","A","B","C","D","E","F","G","H","I","J","K","L","M","N","O","P","Q","R","S","T","U","V","W","X","Y","Z","a","b","c","d","e","f","g","h","i","j","k","l","m","n","o","p","q","r","s","t","u","v","w","x","y","z">>

Ord(c) == CHOOSE i \in 1..Len(CodePoints) : CodePoints[i] = c

LowerChar(c) ==
    IF \E i \in 1..Len(UpperCase) : UpperCase[i] = c
    THEN LowerCase[CHOOSE i \in 1..Len(UpperCase) : UpperCase[i] = c]
    ELSE c

\* str.lower()
Lower(s) == [i \in 1..Len(s) |-> LowerChar(s[i])]

\* Python's `p in s` for strings
Contains(s, p) ==
    \E i \in 0..(Len(s) - Len(p)) : SubSeq(s, i + 1, i + Len(p)) = p

\* Python's `a < b` for strings: lexicographic by code point
StrLess(a, b) ==
    \E i \in 1..(Len(a) + 1) :
        /\ i <= Len(b)
        /\ \A j \in 1..(i - 1) : a[j] = b[j]
        /\ (i = Len(a) + 1 \/ Ord(a[i]) < Ord(b[i]))

\* Python truthiness of a string
Truthy(s) == s # <<>>

\* Optional values: None and a value
None == <<>>
Some(v) == <<v>>
\* Python truthiness of Optional[str]
TruthyOpt(o) == o # None /\ Truthy(o[1])

---------------------------------------------------------------------------
(* Game records: dicts, as functions from the keys they carry *)

Get(g, f, default) == IF f \in DOMAIN g THEN g[f] ELSE default

NameZed == <<"Z","e","d">>
NameApex == <<"a","p","e","x">>
NameHeroic == <<"H","e","r","o","i","c">>
Names == {NameZed, NameApex}

CatSteam == <<"s","t","e","a","m">>
CatShortcut == <<"s","t","e","a","m","-","s","h","o","r","t","c","u","t">>
CatEpic == <<"e","p","i","c">>
CatSideload == <<"s","i","d","e","l","o","a","d">>
CatLauncher == <<"l","a","u","n","c","h","e","r">>
CatDesktop == <<"d","e","s","k","t","o","p">>
CatDesktopCased == <<"D","e","s","k","t","o","p">>

IconPath == <<"/usr/share/pixmaps", "icon.png">>
BoxArt == <<"/home/user/art", "box.jpg">>

AppIdOf(name) == IF name = NameZed THEN "10" ELSE "20"

---------------------------------------------------------------------------
(* Configuration: the sections of config.toml the pipeline reads, with the
   defaults of the code's .get() calls applied.  sort_by "unset" is a
   [behavior] section without the key. *)

KeywordZE == <<"Z","E">>

Filterings ==
    { [games_only |-> FALSE, exclude_categories |-> {}, exclude_keywords |-> {}],
      [games_only |-> FALSE, exclude_categories |-> {CatDesktop}, exclude_keywords |-> {}],
      [games_only |-> FALSE, exclude_categories |-> {}, exclude_keywords |-> {KeywordZE}],
      [games_only |-> FALSE, exclude_categories |-> {CatEpic}, exclude_keywords |-> {KeywordZE}],
      [games_only |-> TRUE, exclude_categories |-> {}, exclude_keywords |-> {}] }

Behaviors ==
    [sort_by : {"unset", "recent", "playtime", "name", "none"},
     show_favorites_first : {TRUE}]
    \cup [sort_by : {"name", "recent"}, show_favorites_first : {FALSE}]

Sgdbs ==
    { [enabled |-> FALSE, api_key |-> FALSE, parallel_requests |-> TRUE,
       fallback_to_steam |-> TRUE, cache_ttl_hours |-> 24, max_workers |-> 10],
      [enabled |-> FALSE, api_key |-> FALSE, parallel_requests |-> FALSE,
       fallback_to_steam |-> TRUE, cache_ttl_hours |-> 24, max_workers |-> 10],
      [enabled |-> TRUE, api_key |-> TRUE, parallel_requests |-> TRUE,
       fallback_to_steam |-> TRUE, cache_ttl_hours |-> 1, max_workers |-> 10],
      [enabled |-> TRUE, api_key |-> TRUE, parallel_requests |-> TRUE,
       fallback_to_steam |-> FALSE, cache_ttl_hours |-> 1, max_workers |-> 10],
      [enabled |-> TRUE, api_key |-> TRUE, parallel_requests |-> FALSE,
       fallback_to_steam |-> FALSE, cache_ttl_hours |-> 2, max_workers |-> 10] }

DefaultFiltering ==
    [games_only |-> FALSE, exclude_categories |-> {}, exclude_keywords |-> {}]
DefaultBehavior == [sort_by |-> "recent", show_favorites_first |-> TRUE]
DefaultSgdb ==
    [enabled |-> FALSE, api_key |-> FALSE, parallel_requests |-> TRUE,
     fallback_to_steam |-> TRUE, cache_ttl_hours |-> 24, max_workers |-> 10]

get_default_config ==
    [filtering |-> DefaultFiltering, behavior |-> DefaultBehavior,
     steamgriddb |-> DefaultSgdb]

\* The configurations explored: each section varied against the defaults
\* of the other two.
Configs ==
    { [filtering |-> f, behavior |-> DefaultBehavior, steamgriddb |-> DefaultSgdb]
        : f \in Filterings }
    \cup { [filtering |-> DefaultFiltering, behavior |-> b, steamgriddb |-> DefaultSgdb]
        : b \in Behaviors }
    \cup { [filtering |-> DefaultFiltering, behavior |-> DefaultBehavior, steamgriddb |-> s]
        : s \in Sgdbs }

---------------------------------------------------------------------------
(* Filter *)

PatSteam == <<"s","t","e","a","m">>
PatHeroic == <<"h","e","r","o","i","c">>

exclude_patterns ==
    { <<"l","a","u","n","c","h","e","r">>,
      <<"m","a","n","a","g","e","r">>,
      <<"r","u","n","t","i","m","e">>,
      <<"p","r","o","t","o","n">>,
      <<"t","o","o","l">>,
      <<"s","t","e","a","m","t","o","o","l","s">>,
      <<"m","o","d"," ","m","a","n","a","g","e","r">>,
      <<"n","e","x","u","s"," ","m","o","d","s">>,
      <<"v","o","r","t","e","x">>,
      <<"p","o","r","t","p","r","o","t","o","n">>,
      <<"p","r","o","t","o","n","u","p">>,
      <<"g","o","v","e","r","l","a","y">>,
      <<"p","i","p","e","r">>,
      <<"p","a","r","s","e","c">>,
      <<"m","o","o","n","l","i","g","h","t">>,
      <<"m","i","l","l","e","n","n","i","u","m">> }

\* The games_only block of should_include_game: TRUE when it returns False.
GamesOnlyDrops(g) ==
    LET category == Lower(Get(g, "category", <<>>))
        name == Lower(Get(g, "name", <<>>))
    IN  \/ /\ category \in {CatLauncher, CatDesktop}
           /\ ~ ( /\ category = CatDesktop
                  /\ \/ Contains(name, PatSteam)
                     \/ Contains(name, PatHeroic)
                     \/ Get(g, "appid", "") # "" )
        \/ \E p \in exclude_patterns : Contains(name, p)

\* (a keyword test that forgets to lower the name)
KeywordHit_NameNotLowered(g, k) == Contains(Get(g, "name", <<>>), Lower(k))
\* A keyword test of should_include_game: k.lower() in game_name_lower
KeywordHit(g, k) == Contains(Lower(Get(g, "name", <<>>)), Lower(k))

should_include_game(g, cfg) ==
    IF cfg.filtering.games_only /\ GamesOnlyDrops(g)
    THEN FALSE
    ELSE IF "category" \in DOMAIN g /\ g.category \in cfg.filtering.exclude_categories
    THEN FALSE
    ELSE IF \E k \in cfg.filtering.exclude_keywords : KeywordHit(g, k)
    THEN FALSE
    ELSE TRUE

---------------------------------------------------------------------------
(* Image cache (class ImageCache).  The in-memory map is a function from
   the keys it holds to [url, timestamp]; the durable store is the file's
   state and, when it parses, the map it holds.  One tick of the clock is
   half an hour. *)

EmptyMap == <<>>
Remove(c, key) == [k \in DOMAIN c \ {key} |-> c[k]]
Put(c, key, entry) == [k \in DOMAIN c \cup {key} |-> IF k = key THEN entry ELSE c[k]]

\* timedelta(hours=ttl_hours), in ticks
Ttl(cfg) == cfg.steamgriddb.cache_ttl_hours * 2

MissingFile == [state |-> "missing", data |-> EmptyMap]
CorruptFile == [state |-> "corrupt", data |-> EmptyMap]
StoredFile(c) == [state |-> "ok", data |-> c]

\* How a _save_cache call ends: the dump succeeds; mkdir or open raises
\* (the file is left as it was); the dump raises after open() truncated
\* the file.
SaveOutcomes == {"saved", "not_opened", "truncated"}

_load_cache(file) == IF file.state = "ok" THEN file.data ELSE EmptyMap

_save_cache(c, file, outcome) ==
    CASE outcome = "saved" -> StoredFile(c)
      [] outcome = "not_opened" -> file
      [] OTHER -> CorruptFile

\* (a get that compares with >= : an entry of age exactly TTL is dropped)
ImageCache_get_AtTtl(c, key, t, ttl) ==
    IF key \notin DOMAIN c
    THEN [cache |-> c, result |-> None]
    ELSE IF t - c[key].timestamp >= ttl
    THEN [cache |-> Remove(c, key), result |-> None]
    ELSE [cache |-> c, result |-> Some(c[key].url)]

\* (a get that reports an expired entry absent but keeps it)
ImageCache_get_NoEvict(c, key, t, ttl) ==
    IF key \notin DOMAIN c
    THEN [cache |-> c, result |-> None]
    ELSE IF t - c[key].timestamp > ttl
    THEN [cache |-> c, result |-> None]
    ELSE [cache |-> c, result |-> Some(c[key].url)]

ImageCache_get(c, key, t, ttl) ==
    IF key \notin DOMAIN c
    THEN [cache |-> c, result |-> None]
    ELSE IF t - c[key].timestamp > ttl
    THEN [cache |-> Remove(c, key), result |-> None]
    ELSE [cache |-> c, result |-> Some(c[key].url)]

\* (a set that writes the store before it adds the entry)
ImageCache_set_SaveFirst(c, file, key, url, t, outcome) ==
    [cache |-> Put(c, key, [url |-> url, timestamp |-> t]),
     file |-> _save_cache(c, file, outcome)]

ImageCache_set(c, file, key, url, t, outcome) ==
    LET c2 == Put(c, key, [url |-> url, timestamp |-> t])
    IN  [cache |-> c2, file |-> _save_cache(c2, file, outcome)]

expired_keys(c, t, ttl) == {k \in DOMAIN c : t - c[k].timestamp > ttl}

clear_expired(c, file, t, ttl, outcome) ==
    LET c2 == [k \in DOMAIN c \ expired_keys(c, t, ttl) |-> c[k]]
    IN  [cache |-> c2,
         file |-> IF expired_keys(c, t, ttl) # {}
                  THEN _save_cache(c2, file, outcome) ELSE file]

\* GameLauncher.__init__: load the store, sweep it
GameLauncher_init(file, t, ttl, outcome) ==
    clear_expired(_load_cache(file), file, t, ttl, outcome)

---------------------------------------------------------------------------
(* Cover resolver.  A resolver call returns its result together with the
   cache and the store it leaves and the network requests it made. *)

\* How the image service answers a request: success with images; a 200
\* answer without a success flag or without data; HTTP 404; any other
\* error (timeout, connection failure, other status, unparsable body).
Responses == {"ok", "no_data", "not_found", "error"}

\* The subsets of the four CDN URLs that answer a HEAD request with 200.
LiveSets == { {}, {1}, {2}, {3, 4}, {4} }

SgdbUrl(platform, app_id) == <<"steamgriddb.com", platform, app_id>>

fallback_urls(app_id) ==
    << <<"steamstatic.com", app_id, "header.jpg">>,
       <<"steamstatic.com", app_id, "library_600x900.jpg">>,
       <<"steamstatic.com", app_id, "capsule_616x353.jpg">>,
       <<"steamstatic.com", app_id, "library_hero.jpg">> >>

SgdbKey(platform, app_id) == <<platform, app_id, "grid">>
CdnKey(app_id) == <<"steam_cdn", app_id>>

Min(S) == CHOOSE x \in S : \A y \in S : x <= y

\* (a CDN resolver that probes the four URLs before it chooses)
get_steam_cdn_fallback_url_ProbesAll(c, file, app_id, t, ttl, live, outcome) ==
    LET got == ImageCache_get(c, CdnKey(app_id), t, ttl)
        urls == fallback_urls(app_id)
    IN  IF TruthyOpt(got.result)
        THEN [result |-> got.result[1], cache |-> got.cache, file |-> file,
              requests |-> <<>>]
        ELSE IF live # {}
        THEN LET i == Min(live)
                 st == ImageCache_set(got.cache, file, CdnKey(app_id), urls[i], t, outcome)
             IN  [result |-> urls[i], cache |-> st.cache, file |-> st.file,
                  requests |-> urls]
        ELSE [result |-> urls[1], cache |-> got.cache, file |-> file,
              requests |-> urls]

get_steam_cdn_fallback_url(c, file, app_id, t, ttl, live, outcome) ==
    LET got == ImageCache_get(c, CdnKey(app_id), t, ttl)
        urls == fallback_urls(app_id)
    IN  IF TruthyOpt(got.result)
        THEN [result |-> got.result[1], cache |-> got.cache, file |-> file,
              requests |-> <<>>]
        ELSE IF live # {}
        THEN LET i == Min(live)
                 st == ImageCache_set(got.cache, file, CdnKey(app_id), urls[i], t, outcome)
             IN  [result |-> urls[i], cache |-> st.cache, file |-> st.file,
                  requests |-> SubSeq(urls, 1, i)]
        ELSE [result |-> urls[1], cache |-> got.cache, file |-> file,
              requests |-> urls]

ServiceRequest(platform, app_id) == <<"steamgriddb.com/api/v2/grids", platform, app_id>>

\* (a resolver that returns the service's URL without storing it)
get_steamgriddb_cover_url_NoStore(cfg, c, file, app_id, platform, t, resp, outcome) ==
    IF ~ cfg.steamgriddb.enabled \/ ~ cfg.steamgriddb.api_key
    THEN [result |-> None, cache |-> c, file |-> file, requests |-> <<>>]
    ELSE
    LET key == SgdbKey(platform, app_id)
        got == ImageCache_get(c, key, t, Ttl(cfg))
        req == <<ServiceRequest(platform, app_id)>>
    IN  IF TruthyOpt(got.result)
        THEN [result |-> got.result, cache |-> got.cache, file |-> file,
              requests |-> <<>>]
        ELSE IF resp = "ok"
        THEN [result |-> Some(SgdbUrl(platform, app_id)), cache |-> got.cache,
              file |-> file, requests |-> req]
        ELSE IF resp = "not_found"
        THEN LET st == ImageCache_set(got.cache, file, key, <<>>, t, outcome)
             IN  [result |-> None, cache |-> st.cache, file |-> st.file,
                  requests |-> req]
        ELSE [result |-> None, cache |-> got.cache, file |-> file, requests |-> req]

\* (a resolver that remembers every failure as it remembers a 404)
get_steamgriddb_cover_url_CachesErrors(cfg, c, file, app_id, platform, t, resp, outcome) ==
    IF ~ cfg.steamgriddb.enabled \/ ~ cfg.steamgriddb.api_key
    THEN [result |-> None, cache |-> c, file |-> file, requests |-> <<>>]
    ELSE
    LET key == SgdbKey(platform, app_id)
        got == ImageCache_get(c, key, t, Ttl(cfg))
        req == <<ServiceRequest(platform, app_id)>>
    IN  IF TruthyOpt(got.result)
        THEN [result |-> got.result, cache |-> got.cache, file |-> file,
              requests |-> <<>>]
        ELSE IF resp = "ok"
        THEN LET st == ImageCache_set(got.cache, file, key, SgdbUrl(platform, app_id), t, outcome)
             IN  [result |-> Some(SgdbUrl(platform, app_id)), cache |-> st.cache,
                  file |-> st.file, requests |-> req]
        ELSE LET st == ImageCache_set(got.cache, file, key, <<>>, t, outcome)
             IN  [result |-> None, cache |-> st.cache, file |-> st.file,
                  requests |-> req]

get_steamgriddb_cover_url(cfg, c, file, app_id, platform, t, resp, outcome) ==
    IF ~ cfg.steamgriddb.enabled \/ ~ cfg.steamgriddb.api_key
    THEN [result |-> None, cache |-> c, file |-> file, requests |-> <<>>]
    ELSE
    LET key == SgdbKey(platform, app_id)
        got == ImageCache_get(c, key, t, Ttl(cfg))
        req == <<ServiceRequest(platform, app_id)>>
    IN  IF TruthyOpt(got.result)
        THEN [result |-> got.result, cache |-> got.cache, file |-> file,
              requests |-> <<>>]
        ELSE IF resp = "ok"
        THEN LET st == ImageCache_set(got.cache, file, key, SgdbUrl(platform, app_id), t, outcome)
             IN  [result |-> Some(SgdbUrl(platform, app_id)), cache |-> st.cache,
                  file |-> st.file, requests |-> req]
        ELSE IF resp = "not_found"
        THEN LET st == ImageCache_set(got.cache, file, key, <<>>, t, outcome)
             IN  [result |-> None, cache |-> st.cache, file |-> st.file,
                  requests |-> req]
        ELSE [result |-> None, cache |-> got.cache, file |-> file, requests |-> req]

\* platform_map.get(source.lower()); every source tag the collectors and
\* load_manual_games write is lower case already
PlatformOfSource(source) ==
    CASE source = "steam" -> "steam"
      [] source = "epic" -> "egs"
      [] source = "gog" -> "gog"
      [] source = "amazon" -> "amazon"
      [] source = "uplay" -> "uplay"
      [] source = "origin" -> "origin"
      [] source = "battlenet" -> "bnet"
      [] source = "sideload" -> "steam"
      [] OTHER -> ""

\* platform_map.get(category.lower())
PlatformOfCategory(category) ==
    LET cat == Lower(category)
    IN  CASE cat = CatSteam -> "steam"
          [] cat = CatEpic -> "egs"
          [] cat = <<"g","o","g">> -> "gog"
          [] cat = <<"a","m","a","z","o","n">> -> "amazon"
          [] cat = <<"u","p","l","a","y">> -> "uplay"
          [] cat = <<"o","r","i","g","i","n">> -> "origin"
          [] cat = <<"b","a","t","t","l","e","n","e","t">> -> "bnet"
          [] cat = CatSideload -> "steam"
          [] OTHER -> ""

get_steamgriddb_platform(source, category) ==
    IF PlatformOfSource(source) # "" THEN PlatformOfSource(source)
    ELSE IF PlatformOfCategory(category) # "" THEN PlatformOfCategory(category)
    ELSE "steam"

get_steam_cover_url(cfg, c, file, app_id, t, resp, live, outcome) ==
    LET sg == get_steamgriddb_cover_url(cfg, c, file, app_id, "steam", t, resp, outcome)
    IN  IF TruthyOpt(sg.result)
        THEN [result |-> sg.result[1], cache |-> sg.cache, file |-> sg.file,
              requests |-> sg.requests]
        ELSE IF cfg.steamgriddb.enabled /\ ~ cfg.steamgriddb.fallback_to_steam
        THEN [result |-> <<>>, cache |-> sg.cache, file |-> sg.file,
              requests |-> sg.requests]
        ELSE LET cdn == get_steam_cdn_fallback_url(sg.cache, sg.file, app_id, t,
                                                   Ttl(cfg), live, outcome)
             IN  [result |-> cdn.result, cache |-> cdn.cache, file |-> cdn.file,
                  requests |-> sg.requests \o cdn.requests]

get_heroic_cover_url(cfg, c, file, app_id, source, art_url, t, resp, outcome) ==
    LET sg == get_steamgriddb_cover_url(cfg, c, file, app_id,
                  get_steamgriddb_platform(source, <<>>), t, resp, outcome)
    IN  [result |-> IF TruthyOpt(sg.result) THEN sg.result[1] ELSE art_url,
         cache |-> sg.cache, file |-> sg.file, requests |-> sg.requests]

---------------------------------------------------------------------------
(* Source collectors: the record each one builds from what it read *)

parse_acf_file(name, app_id, last_played, cover_url) ==
    [name |-> name, exec |-> <<"steam steam://rungameid/", app_id>>,
     image |-> cover_url, category |-> CatSteam, favorite |-> FALSE,
     appid |-> app_id, last_played |-> last_played, source |-> "steam"]

process_shortcut_entry(name, icon, long_appid, last_played) ==
    [name |-> name, exec |-> <<"steam steam://rungameid/", long_appid>>,
     image |-> IF Truthy(icon) THEN icon ELSE <<>>, category |-> CatShortcut,
     favorite |-> FALSE, appid |-> long_appid, last_played |-> last_played,
     source |-> "steam"]

parse_desktop_file(name, image_path) ==
    [name |-> name, exec |-> <<"/usr/bin/game">>, image |-> image_path,
     category |-> CatDesktop, favorite |-> FALSE, source |-> "desktop",
     last_played |-> 0]

\* scan_heroic_library, a store (legendary, gog_store, nile_config) entry
heroic_store_game(title, runner, category, app_name, cover_url) ==
    [name |-> title, exec |-> <<"heroic://launch/", runner, app_name>>,
     image |-> cover_url, category |-> category, favorite |-> FALSE,
     source |-> runner, last_played |-> 0, appid |-> app_name]

\* scan_heroic_library, a sideloaded entry
heroic_sideload_game(title, app_name, cover_url) ==
    [name |-> title, exec |-> <<"heroic://launch/", "sideload", app_name>>,
     image |-> cover_url, category |-> CatSideload, favorite |-> FALSE,
     source |-> "heroic", last_played |-> 0, appid |-> app_name]

\* load_config_entries, one [[entries]] table
config_entry(title, image_path) ==
    [name |-> title, exec |-> <<"launch">>, image |-> image_path,
     category |-> CatLauncher, favorite |-> FALSE, source |-> "config",
     last_played |-> 0]

\* str(expand_path(p)) for a path without ~ or $: str(Path("")) is "."
expand_path(path) == IF path = <<>> THEN <<".">> ELSE path

\* load_manual_games, one [[games]] table of games.toml
load_manual_game(entry) ==
    [f \in DOMAIN entry \cup {"source", "last_played"} |->
        CASE f = "source" -> "manual"
          [] f = "last_played" -> Get(entry, "last_played", 0)
          [] f = "image" -> expand_path(entry.image)
          [] OTHER -> entry[f]]

\* The tables of games.toml explored.
ManualEntries ==
    { [name |-> NameZed, favorite |-> TRUE],
      [name |-> NameZed, favorite |-> FALSE, image |-> <<>>, last_played |-> 9],
      [name |-> NameApex, image |-> BoxArt, category |-> CatDesktop, playtime |-> 3],
      [name |-> NameApex, favorite |-> TRUE, category |-> CatDesktopCased] }

\* The shortcut id str(convert_appid_to_long(0)) of a shortcut without appid
ShortcutAppId == "33554432"

\* What the collectors read, as far as it is explored: the manifests
\* (name, LastPlayed), the Heroic library (title, sideloaded or not), and
\* the records of the collectors that resolve nothing.
SteamManifests == { <<NameZed, 7>>, <<NameZed, 0>>, <<NameApex, 0>> }

HeroicLibrary == { <<NameZed, FALSE>>, <<NameApex, TRUE>> }

ShortcutRecords ==
    { process_shortcut_entry(NameZed, IconPath, ShortcutAppId, 0),
      process_shortcut_entry(NameApex, <<>>, ShortcutAppId, 0) }

DesktopRecords == { parse_desktop_file(nm, IconPath) : nm \in Names }

ConfigRecords == { config_entry(NameZed, <<>>), config_entry(NameApex, BoxArt) }
\* The [[entries]] of config.toml that the pipeline reads: those, and one
\* titled after the storefront it starts.
PipelineEntries == ConfigRecords \cup { config_entry(NameHeroic, <<>>) }

\* How a store write ends during a pipeline run.
PipelineOutcomes == {"saved"}

---------------------------------------------------------------------------
(* Catalog merger: games_dict is an insertion-ordered dict keyed by name *)

Keys(d) == { d[i].name : i \in DOMAIN d }
IndexOf(d, name) == CHOOSE i \in DOMAIN d : d[i].name = name
Lookup(d, name) == d[IndexOf(d, name)]

\* (an update that adds up the play times of the two records)
Update_SumPlayed(old, new) ==
    [f \in DOMAIN old \cup DOMAIN new |->
        IF f = "last_played" /\ f \in DOMAIN old /\ f \in DOMAIN new
        THEN old[f] + new[f]
        ELSE IF f \in DOMAIN new THEN new[f] ELSE old[f]]

\* dict.update
Update(old, new) ==
    [f \in DOMAIN old \cup DOMAIN new |-> IF f \in DOMAIN new THEN new[f] ELSE old[f]]

\* (a catalog kept as a list: every stored record is appended)
DictSet_Append(d, g) == Append(d, g)

\* games_dict[game["name"]] = game
DictSet(d, g) ==
    IF g.name \in Keys(d) THEN [d EXCEPT ![IndexOf(d, g.name)] = g] ELSE Append(d, g)

\* games_dict[game["name"]].update(game)
DictUpdate(d, g) ==
    [d EXCEPT ![IndexOf(d, g.name)] = Update(d[IndexOf(d, g.name)], g)]

\* loop body over steam_games
MergeSteam(d, g, cfg) ==
    IF should_include_game(g, cfg) THEN DictSet(d, g) ELSE d

\* (later sources merged like desktop entries: first writer wins)
MergeOverlay_KeepExisting(d, g, cfg) ==
    IF should_include_game(g, cfg)
    THEN IF g.name \in Keys(d) THEN d ELSE DictSet(d, g)
    ELSE d

\* loop body over steam_shortcuts, heroic_games and config_entries
MergeOverlay(d, g, cfg) ==
    IF should_include_game(g, cfg)
    THEN IF g.name \in Keys(d) THEN DictUpdate(d, g) ELSE DictSet(d, g)
    ELSE d

\* (desktop entries merged like the sources before them: laid over the
\* record of their name)
MergeDesktop_Overlay(d, g, cfg) ==
    IF should_include_game(g, cfg)
    THEN IF g.name \in Keys(d) THEN DictUpdate(d, g) ELSE DictSet(d, g)
    ELSE d

\* loop body over desktop_games
MergeDesktop(d, g, cfg) ==
    IF should_include_game(g, cfg)
    THEN IF g.name \notin Keys(d) THEN DictSet(d, g) ELSE d
    ELSE d

\* (manual entries merged like desktop entries: added only when the name is new)
MergeManual_KeepExisting(d, g) ==
    IF g.name \in Keys(d) THEN d ELSE DictSet(d, g)

\* loop body over manual_games
MergeManual(d, g) ==
    IF g.name \in Keys(d) THEN DictUpdate(d, g) ELSE DictSet(d, g)

---------------------------------------------------------------------------
(* Fetch scheduler and sort *)

EligibleSources == {"steam", "epic", "gog", "amazon"}

\* "steamstatic.com" in image
IsSteamstatic(image) == \E j \in DOMAIN image : image[j] = "steamstatic.com"

\* the indices fetch_images_parallel puts in games_to_fetch
games_to_fetch(gs) ==
    { i \in DOMAIN gs :
        /\ Get(gs[i], "source", "") \in EligibleSources
        /\ Get(gs[i], "appid", "") # ""
        /\ (~ Truthy(Get(gs[i], "image", <<>>)) \/ IsSteamstatic(Get(gs[i], "image", <<>>))) }

\* (a task that stops at the service's answer)
fetch_image_NoFallback(cfg, c, file, g, t, resp, live, outcome) ==
    get_steamgriddb_cover_url(cfg, c, file, g.appid,
        get_steamgriddb_platform(Get(g, "source", ""), Get(g, "category", <<>>)),
        t, resp, outcome)

\* fetch_image: the task of one record
fetch_image(cfg, c, file, g, t, resp, live, outcome) ==
    LET platform == get_steamgriddb_platform(Get(g, "source", ""), Get(g, "category", <<>>))
        sg == get_steamgriddb_cover_url(cfg, c, file, g.appid, platform, t, resp, outcome)
    IN  IF ~ TruthyOpt(sg.result) /\ Get(g, "source", "") = "steam"
        THEN LET cdn == get_steam_cdn_fallback_url(sg.cache, sg.file, g.appid, t,
                                                   Ttl(cfg), live, outcome)
             IN  [result |-> Some(cdn.result), cache |-> cdn.cache, file |-> cdn.file,
                  requests |-> sg.requests \o cdn.requests]
        ELSE sg

\* (a write-back that keeps the image and drops the other fields)
SetImage_ImageOnly(g, url) == [name |-> g.name, image |-> url]

\* games[idx]["image"] = url
SetImage(g, url) == [f \in DOMAIN g \cup {"image"} |-> IF f = "image" THEN url ELSE g[f]]

\* (a loop that marks the record of a failed task)
apply_result_MarksFailure(gs, ts, idx) ==
    IF ts[idx].state = "done" /\ TruthyOpt(ts[idx].url)
    THEN [gs EXCEPT ![idx] = SetImage(gs[idx], ts[idx].url[1])]
    ELSE [gs EXCEPT ![idx] = SetImage(gs[idx], <<"missing.png">>)]

\* (a loop that hands the results to the records in the order of arrival)
apply_result_ByArrival(gs, ts, idx) ==
    LET slot == Min({ j \in DOMAIN ts : ts[j].state # "applied" })
    IN  IF ts[idx].state = "done" /\ TruthyOpt(ts[idx].url)
        THEN [gs EXCEPT ![slot] = SetImage(gs[slot], ts[idx].url[1])]
        ELSE gs

\* The body of the as_completed loop for the future of record idx:
\* idx = futures[future]; url = future.result(); if url: games[idx]["image"] = url;
\* an exception of the task is swallowed.
apply_result(gs, ts, idx) ==
    IF ts[idx].state = "done" /\ TruthyOpt(ts[idx].url)
    THEN [gs EXCEPT ![idx] = SetImage(gs[idx], ts[idx].url[1])]
    ELSE gs

\* key=lambda g: (not g.get("favorite", False))
FavoriteBefore(a, b) == Get(a, "favorite", FALSE) /\ ~ Get(b, "favorite", FALSE)
\* key=lambda g: g.get("last_played", 0), reverse=True
RecentBefore(a, b) == Get(a, "last_played", 0) > Get(b, "last_played", 0)
\* key=lambda g: g.get("playtime", 0), reverse=True
PlaytimeBefore(a, b) == Get(a, "playtime", 0) > Get(b, "playtime", 0)
\* key=lambda g: g.get("name", "").lower()
NameBefore(a, b) == StrLess(Lower(Get(a, "name", <<>>)), Lower(Get(b, "name", <<>>)))

\* key(a) < key(b), or key(a) > key(b) under reverse=True, for the sort
\* keys of sort_games
Before(key, a, b) ==
    CASE key = "favorite" -> FavoriteBefore(a, b)
      [] key = "recent" -> RecentBefore(a, b)
      [] key = "playtime" -> PlaytimeBefore(a, b)
      [] key = "name" -> NameBefore(a, b)

\* list.sort is stable: a record goes in front of the first record it is
\* before, behind every record it ties with
InsertStable(sorted, x, key) ==
    LET later == { i \in DOMAIN sorted : Before(key, x, sorted[i]) }
        at == IF later = {} THEN Len(sorted) + 1 ELSE Min(later)
    IN  SubSeq(sorted, 1, at - 1) \o <<x>> \o SubSeq(sorted, at, Len(sorted))

\* list.sort(key=...)
StableSort(seq, key) ==
    LET f[i \in 0..Len(seq)] ==
            IF i = 0 THEN <<>> ELSE InsertStable(f[i - 1], seq[i], key)
    IN  f[Len(seq)]

\* self.config.get("behavior", {}).get("sort_by", "name")
SortBy(cfg) == IF cfg.behavior.sort_by = "unset" THEN "name" ELSE cfg.behavior.sort_by

sort_games(gs, cfg) ==
    LET byFav == IF cfg.behavior.show_favorites_first
                 THEN StableSort(gs, "favorite") ELSE gs
    IN  IF SortBy(cfg) \in {"recent", "playtime", "name"}
        THEN StableSort(byFav, SortBy(cfg))
        ELSE byFav

---------------------------------------------------------------------------
(* The pipeline get_all_games: merge_games (its six loops, then the fetch
   stage) and sort_games.  The collectors only read the file system, and
   each list they return is consumed once, by its loop; a loop step draws
   the next record of its collector's list.  The two collectors that call
   the resolver (Steam and Heroic, when parallel_requests is off) run in
   the order of their loops. *)

\* A cache or resolver call, as `op` records it: its name, the key, the
\* entry its lookup found (None when there was none), what it returned
\* (for set: what it stored), the requests it sent, how its store write ended.
Op(name, key, seen, result, requests, outcome) ==
    [name |-> name, key |-> key, seen |-> seen, result |-> result,
     requests |-> requests, outcome |-> outcome]
NoOp == Op("none", <<>>, None, None, <<>>, "saved")
\* A resolver call, with the answer the service gave to the request it sent
\* (read only when a request was sent).
OpAnswered(o, resp) ==
    [f \in DOMAIN o \cup {"response"} |-> IF f = "response" THEN resp ELSE o[f]]

EpicAppOf(name) == IF name = NameZed THEN "e10" ELSE "e20"
EpicArt == <<"cdn.epicgames.com", "art.jpg">>

Consume(g, d) ==
    /\ game' = <<g>>
    /\ games_dict' = d
    /\ n' = n + 1

LoopSteam ==
    /\ pc = "steam"
    /\ n < MaxPerSource
    /\ \E m \in SteamManifests :
        LET nm == m[1]
            lp == m[2]
        IN
        IF config.steamgriddb.parallel_requests
        THEN LET g == parse_acf_file(nm, AppIdOf(nm), lp, <<>>)
             IN  /\ Consume(g, MergeSteam(games_dict, g, config))
                 /\ included' = should_include_game(g, config)
                 /\ UNCHANGED cacheVars
        ELSE \E resp \in Responses, live \in LiveSets, outcome \in PipelineOutcomes :
             LET r == get_steam_cover_url(config, cache, cache_file, AppIdOf(nm),
                                          now, resp, live, outcome)
                 g == parse_acf_file(nm, AppIdOf(nm), lp, r.result)
             IN  /\ Consume(g, MergeSteam(games_dict, g, config))
                 /\ included' = should_include_game(g, config)
                 /\ cache' = r.cache
                 /\ cache_file' = r.file
                 /\ UNCHANGED <<now, op>>
    /\ UNCHANGED <<controller, config, pc, manual_games, games, tasks, outputs, merged>>

LoopShortcuts ==
    /\ pc = "shortcuts"
    /\ n < MaxPerSource
    /\ \E g \in ShortcutRecords :
        /\ Consume(g, MergeOverlay(games_dict, g, config))
        /\ included' = should_include_game(g, config)
    /\ UNCHANGED <<controller, config, pc, manual_games, games, tasks, outputs, merged>>
    /\ UNCHANGED cacheVars

LoopHeroic ==
    /\ pc = "heroic"
    /\ n < MaxPerSource
    /\ \E h \in HeroicLibrary :
        LET nm == h[1]
            sideload == h[2]
        IN
        IF config.steamgriddb.parallel_requests
        THEN LET g == IF sideload
                      THEN heroic_sideload_game(nm, EpicAppOf(nm), <<>>)
                      ELSE heroic_store_game(nm, "epic", CatEpic, EpicAppOf(nm), <<>>)
             IN  /\ Consume(g, MergeOverlay(games_dict, g, config))
                 /\ included' = should_include_game(g, config)
                 /\ UNCHANGED cacheVars
        ELSE \E resp \in Responses, outcome \in PipelineOutcomes :
             LET r == get_heroic_cover_url(config, cache, cache_file, EpicAppOf(nm),
                          IF sideload THEN "sideload" ELSE "epic", EpicArt,
                          now, resp, outcome)
                 g == IF sideload
                      THEN heroic_sideload_game(nm, EpicAppOf(nm), r.result)
                      ELSE heroic_store_game(nm, "epic", CatEpic, EpicAppOf(nm), r.result)
             IN  /\ Consume(g, MergeOverlay(games_dict, g, config))
                 /\ included' = should_include_game(g, config)
                 /\ cache' = r.cache
                 /\ cache_file' = r.file
                 /\ UNCHANGED <<now, op>>
    /\ UNCHANGED <<controller, config, pc, manual_games, games, tasks, outputs, merged>>

LoopConfig ==
    /\ pc = "config"
    /\ n < MaxPerSource
    /\ \E g \in PipelineEntries :
        /\ Consume(g, MergeOverlay(games_dict, g, config))
        /\ included' = should_include_game(g, config)
    /\ UNCHANGED <<controller, config, pc, manual_games, games, tasks, outputs, merged>>
    /\ UNCHANGED cacheVars

LoopDesktop ==
    /\ pc = "desktop"
    /\ n < MaxPerSource
    /\ \E g \in DesktopRecords :
        /\ Consume(g, MergeDesktop(games_dict, g, config))
        /\ included' = should_include_game(g, config)
    /\ UNCHANGED <<controller, config, pc, manual_games, games, tasks, outputs, merged>>
    /\ UNCHANGED cacheVars

LoopManual ==
    /\ pc = "manual"
    /\ n < MaxPerSource
    /\ \E e \in ManualEntries :
        LET g == load_manual_game(e)
        IN  /\ Consume(g, MergeManual(games_dict, g))
            /\ manual_games' = Append(manual_games, g)
    /\ UNCHANGED <<controller, config, pc, included, games, tasks, outputs, merged>>
    /\ UNCHANGED cacheVars

NextLoopOf(p) ==
    CASE p = "steam" -> "shortcuts"
      [] p = "shortcuts" -> "heroic"
      [] p = "heroic" -> "config"
      [] p = "config" -> "desktop"
      [] p = "desktop" -> "manual"

\* a loop has consumed its whole list
EndLoop ==
    /\ pc \in {"steam", "shortcuts", "heroic", "config", "desktop"}
    /\ pc' = NextLoopOf(pc)
    /\ n' = 0
    /\ game' = <<>>
    /\ included' = TRUE
    /\ UNCHANGED <<controller, config, games_dict, manual_games, games, tasks, outputs, merged>>
    /\ UNCHANGED cacheVars

\* the end of the manual loop: games = list(games_dict.values()), and the
\* entry of fetch_images_parallel up to the submission of its tasks
FinishMerge ==
    /\ pc = "manual"
    /\ games' = games_dict
    /\ n' = 0
    /\ IF /\ config.steamgriddb.enabled
          /\ config.steamgriddb.parallel_requests
          /\ games_to_fetch(games_dict) # {}
       THEN /\ pc' = "fetch"
            /\ tasks' = [i \in games_to_fetch(games_dict) |->
                            [state |-> "queued", url |-> None]]
       ELSE /\ pc' = "sort"
            /\ tasks' = tasks
    /\ game' = <<>>
    /\ included' = TRUE
    /\ UNCHANGED <<controller, config, games_dict, manual_games, outputs, merged>>
    /\ UNCHANGED cacheVars

\* one task of the pool runs fetch_image
FetchImage ==
    /\ pc = "fetch"
    /\ \E i \in DOMAIN tasks :
        /\ tasks[i].state = "queued"
        /\ \E resp \in Responses, live \in LiveSets, outcome \in PipelineOutcomes :
            LET r == fetch_image(config, cache, cache_file, games[i], now, resp,
                                 live, outcome)
            IN  /\ tasks' = [tasks EXCEPT ![i] = [state |-> "done", url |-> r.result]]
                /\ cache' = r.cache
                /\ cache_file' = r.file
    /\ UNCHANGED <<controller, config, pc, game, included, n, games_dict, manual_games, games,
                   now, op, outputs, merged>>

\* the as_completed loop takes a finished task and writes its result back
ApplyResult ==
    /\ pc = "fetch"
    /\ \E i \in DOMAIN tasks :
        /\ tasks[i].state = "done"
        /\ tasks' = [tasks EXCEPT ![i].state = "applied"]
        /\ games' = apply_result(games, tasks, i)
    /\ UNCHANGED <<controller, config, pc, game, included, n, games_dict, manual_games,
                   outputs, merged>>
    /\ UNCHANGED cacheVars

\* every task is done and applied: fetch_images_parallel and merge_games return
FetchReturn ==
    /\ pc = "fetch"
    /\ \A i \in DOMAIN tasks : tasks[i].state = "applied"
    /\ pc' = "sort"
    /\ UNCHANGED <<controller, config, game, included, n, games_dict, manual_games, games, tasks,
                   outputs, merged>>
    /\ UNCHANGED cacheVars

SortGames ==
    /\ pc = "sort"
    /\ games' = sort_games(games, config)
    /\ pc' = "done"
    /\ UNCHANGED <<controller, config, game, included, n, games_dict, manual_games, tasks,
                   outputs, merged>>
    /\ UNCHANGED cacheVars

\* A store left by an earlier run.
EarlierStore ==
    StoredFile(Put(EmptyMap, SgdbKey("steam", "10"),
                   [url |-> SgdbUrl("steam", "10"), timestamp |-> 0]))

NoOutputs ==
    [steam |-> <<>>, shortcuts |-> <<>>, heroic |-> <<>>, config |-> <<>>,
     desktop |-> <<>>, manual |-> <<>>]

Init ==
    /\ config \in Configs
    /\ controller = NoController
    /\ pc = "steam"
    /\ game = <<>>
    /\ included = TRUE
    /\ n = 0
    /\ games_dict = <<>>
    /\ manual_games = <<>>
    /\ games = <<>>
    /\ tasks = <<>>
    /\ now = 0
    /\ cache_file \in (IF config.steamgriddb.enabled
                       THEN {MissingFile, EarlierStore} ELSE {MissingFile})
    /\ cache = GameLauncher_init(cache_file, now, Ttl(config), "saved").cache
    /\ op = NoOp
    /\ outputs = NoOutputs
    /\ merged = <<>>

Next ==
    \/ LoopSteam
    \/ LoopShortcuts
    \/ LoopHeroic
    \/ LoopConfig
    \/ LoopDesktop
    \/ LoopManual
    \/ EndLoop
    \/ FinishMerge
    \/ FetchImage
    \/ ApplyResult
    \/ FetchReturn
    \/ SortGames

Spec == Init /\ [][Next]_vars

---------------------------------------------------------------------------
(* The image cache over time: calls of get, set, clear_expired and of the
   service resolver, the clock, and restarts of the program on the store
   the previous run left. *)

CacheConfig ==
    [get_default_config EXCEPT !.steamgriddb =
        [enabled |-> TRUE, api_key |-> TRUE, parallel_requests |-> TRUE,
         fallback_to_steam |-> TRUE, cache_ttl_hours |-> 1, max_workers |-> 10]]

CacheKeys == { SgdbKey("steam", "10"), CdnKey("10") }
\* The values callers hand to set directly; an empty value is stored by the
\* resolver alone, on a 404 answer.
CacheUrls == { SgdbUrl("steam", "10"), fallback_urls("10")[1] }

SeenAt(c, key) == IF key \in DOMAIN c THEN Some(c[key]) ELSE None

CacheGet ==
    \E key \in CacheKeys :
        LET r == ImageCache_get(cache, key, now, Ttl(config))
        IN  /\ cache' = r.cache
            /\ op' = Op("get", key, SeenAt(cache, key), r.result, <<>>, "saved")
            /\ UNCHANGED <<cache_file, now>>
            /\ UNCHANGED <<controller, config, outputs, merged>>
            /\ UNCHANGED pipelineVars

CacheSet ==
    \E key \in CacheKeys, url \in CacheUrls, outcome \in SaveOutcomes :
        LET r == ImageCache_set(cache, cache_file, key, url, now, outcome)
        IN  /\ cache' = r.cache
            /\ cache_file' = r.file
            /\ op' = Op("set", key, None, Some(url), <<>>, outcome)
            /\ UNCHANGED now
            /\ UNCHANGED <<controller, config, outputs, merged>>
            /\ UNCHANGED pipelineVars

ClearExpired ==
    \E outcome \in SaveOutcomes :
        LET r == clear_expired(cache, cache_file, now, Ttl(config), outcome)
        IN  /\ cache' = r.cache
            /\ cache_file' = r.file
            /\ op' = Op("clear_expired", <<>>, None, None, <<>>, outcome)
            /\ UNCHANGED now
            /\ UNCHANGED <<controller, config, outputs, merged>>
            /\ UNCHANGED pipelineVars

ResolveCover ==
    \E resp \in Responses, outcome \in SaveOutcomes :
        LET r == get_steamgriddb_cover_url(config, cache, cache_file, "10", "steam",
                                           now, resp, outcome)
        IN  /\ cache' = r.cache
            /\ cache_file' = r.file
            /\ op' = OpAnswered(Op("get_steamgriddb_cover_url", SgdbKey("steam", "10"),
                                    SeenAt(cache, SgdbKey("steam", "10")), r.result,
                                    r.requests, outcome),
                                 IF r.requests = <<>> THEN "none" ELSE resp)
            /\ UNCHANGED now
            /\ UNCHANGED <<controller, config, outputs, merged>>
            /\ UNCHANGED pipelineVars

\* a call of the CDN resolver; `live` are the URLs that answer its probes
ResolveCdn ==
    \E live \in LiveSets, outcome \in SaveOutcomes :
        LET r == get_steam_cdn_fallback_url(cache, cache_file, "10", now, Ttl(config),
                                            live, outcome)
        IN  /\ cache' = r.cache
            /\ cache_file' = r.file
            /\ op' = OpAnswered(Op("get_steam_cdn_fallback_url", CdnKey("10"),
                                    SeenAt(cache, CdnKey("10")), Some(r.result),
                                    r.requests, outcome),
                                 IF r.requests = <<>> THEN "none" ELSE live)
            /\ UNCHANGED now
            /\ UNCHANGED <<controller, config, outputs, merged>>
            /\ UNCHANGED pipelineVars

Tick ==
    /\ now < MaxTime
    /\ now' = now + 1
    /\ op' = NoOp
    /\ UNCHANGED <<cache, cache_file>>
    /\ UNCHANGED <<controller, config, outputs, merged>>
    /\ UNCHANGED pipelineVars

\* a later run: GameLauncher.__init__ on the store as it is
Restart ==
    \E outcome \in SaveOutcomes :
        LET r == GameLauncher_init(cache_file, now, Ttl(config), outcome)
        IN  /\ cache' = r.cache
            /\ cache_file' = r.file
            /\ op' = Op("init", <<>>, None, None, <<>>, outcome)
            /\ UNCHANGED now
            /\ UNCHANGED <<controller, config, outputs, merged>>
            /\ UNCHANGED pipelineVars

InitCache ==
    /\ config = CacheConfig
    /\ controller = NoController
    /\ pc = "cache"
    /\ game = <<>>
    /\ included = TRUE
    /\ n = 0
    /\ games_dict = <<>>
    /\ manual_games = <<>>
    /\ games = <<>>
    /\ tasks = <<>>
    /\ now = 0
    /\ cache_file \in {MissingFile, CorruptFile, EarlierStore}
    /\ cache = GameLauncher_init(cache_file, now, Ttl(config), "saved").cache
    /\ op = NoOp
    /\ outputs = NoOutputs
    /\ merged = <<>>

NextCache ==
    \/ CacheGet
    \/ CacheSet
    \/ ClearExpired
    \/ ResolveCover
    \/ Tick
    \/ Restart

SpecCache == InitCache /\ [][NextCache]_vars

\* The CDN resolver over time: its calls, the clock, and restarts.
NextCdn ==
    \/ ResolveCdn
    \/ Tick
    \/ Restart

SpecCdn == InitCache /\ [][NextCdn]_vars

---------------------------------------------------------------------------
(* The merger as a function of the collectors' outputs, and the order
   study: the same outputs handed over with the records of one collector's
   list in another order. *)

\* the body of the loop over one source's list
MergeBody(loop, d, g, cfg) ==
    CASE loop = "steam" -> MergeSteam(d, g, cfg)
      [] loop \in {"shortcuts", "heroic", "config"} -> MergeOverlay(d, g, cfg)
      [] loop = "desktop" -> MergeDesktop(d, g, cfg)
      [] loop = "manual" -> MergeManual(d, g)

\* for game in lst: the loop's body
Fold(d, lst, loop, cfg) ==
    LET f[i \in 0..Len(lst)] ==
            IF i = 0 THEN d ELSE MergeBody(loop, f[i - 1], lst[i], cfg)
    IN  f[Len(lst)]

\* merge_games, from the empty games_dict to list(games_dict.values())
merge_dict(o, cfg) ==
    LET d1 == Fold(<<>>, o.steam, "steam", cfg)
        d2 == Fold(d1, o.shortcuts, "shortcuts", cfg)
        d3 == Fold(d2, o.heroic, "heroic", cfg)
        d4 == Fold(d3, o.config, "config", cfg)
        d5 == Fold(d4, o.desktop, "desktop", cfg)
    IN  Fold(d5, o.manual, "manual", cfg)

SeqsUpTo(S, k) == UNION { [1..m -> S] : m \in 0..k }

SteamRecords == { parse_acf_file(m[1], AppIdOf(m[1]), m[2], <<>>) : m \in SteamManifests }
HeroicRecords ==
    { IF h[2] THEN heroic_sideload_game(h[1], EpicAppOf(h[1]), <<>>)
      ELSE heroic_store_game(h[1], "epic", CatEpic, EpicAppOf(h[1]), <<>>)
        : h \in HeroicLibrary }
ManualRecords == { load_manual_game(e) : e \in ManualEntries }

Swap(lst, i) ==
    [j \in DOMAIN lst |-> IF j = i THEN lst[i + 1] ELSE IF j = i + 1 THEN lst[i] ELSE lst[j]]

Collectors == {"steam", "shortcuts", "heroic", "config", "desktop"}

\* a collector returns the same records in another order
PermuteOutput ==
    /\ \E src \in Collectors :
        \E i \in 1..(Len(outputs[src]) - 1) :
            /\ outputs' = [outputs EXCEPT ![src] = Swap(outputs[src], i)]
            /\ merged' = merge_dict(outputs', config)
    /\ UNCHANGED <<controller, config>>
    /\ UNCHANGED pipelineVars
    /\ UNCHANGED cacheVars

\* The configurations of the order study: no filter, and a keyword filter
\* that drops one of the names.
OrderConfigs ==
    { get_default_config,
      [get_default_config EXCEPT !.filtering.exclude_keywords = {KeywordZE}] }

InitOrder ==
    /\ config \in OrderConfigs
    /\ controller = NoController
    /\ pc = "order"
    /\ game = <<>>
    /\ included = TRUE
    /\ n = 0
    /\ games_dict = <<>>
    /\ manual_games = <<>>
    /\ games = <<>>
    /\ tasks = <<>>
    /\ now = 0
    /\ cache_file = MissingFile
    /\ cache = EmptyMap
    /\ op = NoOp
    /\ outputs \in [steam : SeqsUpTo(SteamRecords, MaxPerSource),
                    shortcuts : SeqsUpTo(ShortcutRecords, MaxPerSource),
                    heroic : SeqsUpTo(HeroicRecords, MaxSolo),
                    config : SeqsUpTo(ConfigRecords, MaxSolo),
                    desktop : SeqsUpTo(DesktopRecords, MaxSolo),
                    manual : SeqsUpTo(ManualRecords, MaxSolo)]
    /\ merged = merge_dict(outputs, config)

NextOrder == PermuteOutput

SpecOrder == InitOrder /\ [][NextOrder]_vars

---------------------------------------------------------------------------
(* Start-up on the store an earlier run, or anything else, left: the
   construction of GameLauncher, then the pipeline. *)

\* A store that parses as JSON but is not an object (a list, a string):
\* json.load returns it and ImageCache.cache is that value.
NotAMapFile == [state |-> "not_map", data |-> EmptyMap]

\* A store whose entry has no timestamp.
NoTimestampFile ==
    StoredFile(Put(EmptyMap, SgdbKey("steam", "10"), [url |-> SgdbUrl("steam", "10")]))

StoreStates == {MissingFile, CorruptFile, EarlierStore, NotAMapFile, NoTimestampFile}

\* clear_expired raises: self.cache.items() on a value that is no dict, or
\* v['timestamp'] on an entry without one; __init__ does not catch it
init_raises(file) ==
    \/ file.state = "not_map"
    \/ /\ file.state = "ok"
       /\ \E k \in DOMAIN file.data : "timestamp" \notin DOMAIN file.data[k]

\* GameLauncher(): load_config, ImageCache(...), clear_expired
Construct ==
    /\ pc = "init"
    /\ IF init_raises(cache_file)
       THEN /\ pc' = "raised"
            /\ UNCHANGED <<cache, cache_file>>
       ELSE LET r == GameLauncher_init(cache_file, now, Ttl(config), "saved")
            IN  /\ pc' = "steam"
                /\ cache' = r.cache
                /\ cache_file' = r.file
    /\ UNCHANGED <<controller, config, game, included, n, games_dict, manual_games, games, tasks,
                   now, op, outputs, merged>>

InitStart ==
    /\ config = CacheConfig
    /\ controller = NoController
    /\ pc = "init"
    /\ game = <<>>
    /\ included = TRUE
    /\ n = 0
    /\ games_dict = <<>>
    /\ manual_games = <<>>
    /\ games = <<>>
    /\ tasks = <<>>
    /\ now = 0
    /\ cache_file \in StoreStates
    /\ cache = EmptyMap
    /\ op = NoOp
    /\ outputs = NoOutputs
    /\ merged = <<>>

NextStart ==
    \/ Construct
    \/ Next

SpecStart == InitStart /\ [][NextStart]_vars

---------------------------------------------------------------------------
(* The fetch stage, task by task: fetch_images_parallel submits one
   fetch_image task per record to a ThreadPoolExecutor(max_workers) and
   applies the results as they complete.  The workers are threads that
   share ImageCache.cache and the store file without a lock, so a task is
   modelled step by step: cache lookup, request, dict insert, open(file,
   'w'), json.dump, close.  open truncates the file; the dump goes to the
   writer's buffer and reaches the file at close, written from offset 0
   over whatever the file holds then.  Sizes are counted in entries: every
   dump is a snapshot of the one map, which only grows here.  A dump
   during which another task inserts a key either has passed the last
   entry already or raises RuntimeError (dictionary changed size during
   iteration), which _save_cache catches after the with block has written
   the part that was dumped. *)

NameNova == <<"N","o","v","a">>

\* The catalog the fetch stage starts from: two Steam records and an Epic
\* record, as merge_games built them under parallel_requests.
FetchGames ==
    merge_dict([NoOutputs EXCEPT
                   !.steam = << parse_acf_file(NameZed, "10", 0, <<>>),
                                parse_acf_file(NameNova, "30", 0, <<>>) >>,
                   !.heroic = << heroic_store_game(NameApex, "epic", CatEpic, "e20", <<>>) >>],
               CacheConfig)

FetchConfigs ==
    { [CacheConfig EXCEPT !.steamgriddb.max_workers = w] : w \in 1..MaxWorkers }

\* A cache with an entry that has a timestamp and no url (clear_expired
\* reads the timestamp only and keeps it).
NoUrlCache == Put(EmptyMap, SgdbKey("egs", "e20"), [timestamp |-> 0])

\* ImageCache.get raises KeyError at entry['url']
get_raises(c, key) == key \in DOMAIN c /\ "url" \notin DOMAIN c[key]

\* the tasks a worker thread is running
Running(ts) == { i \in DOMAIN ts : ts[i].state = "running" }

\* (a pool without a limit: a queued task can always start)
CanStart_Unbounded(ts, cfg) == Cardinality(DOMAIN ts) >= 0

\* ThreadPoolExecutor: a queued task starts when a worker is free
CanStart(ts, cfg) == Cardinality(Running(ts)) < cfg.steamgriddb.max_workers

\* the size of the file's content
FileSize(file) ==
    IF file.state = "ok" THEN Cardinality(DOMAIN file.data) ELSE Get(file, "size", 0)

\* close(): the buffered dump is written from offset 0; what the file
\* holds beyond the dump's length stays and makes the content unparsable
flush(buf, file) ==
    IF Cardinality(DOMAIN buf) >= FileSize(file)
    THEN StoredFile(buf)
    ELSE [state |-> "corrupt", data |-> EmptyMap, size |-> FileSize(file)]

\* close() after an interrupted dump: a part of the snapshot is written
\* from offset 0; the content stays as it is when the file already holds a
\* snapshot that long, and is unparsable otherwise
flush_interrupted(buf, file) ==
    IF file.state = "ok" /\ FileSize(file) >= Cardinality(DOMAIN buf)
    THEN file
    ELSE [state |-> "corrupt", data |-> EmptyMap,
          size |-> IF FileSize(file) >= Cardinality(DOMAIN buf)
                   THEN FileSize(file) ELSE Cardinality(DOMAIN buf)]

\* the cache key of the stage a task is in
KeyOf(t, g) ==
    IF t.stage = "cdn" THEN CdnKey(g.appid)
    ELSE SgdbKey(get_steamgriddb_platform(Get(g, "source", ""), Get(g, "category", <<>>)),
                 g.appid)

Returned(t) == [t EXCEPT !.state = "done", !.at = "-"]
Raised(t) == [t EXCEPT !.state = "raised", !.at = "raised"]

\* where a task goes after the service stage or a store write: to the CDN
\* fallback (`if not url and game.get("source") == "steam"`), or it returns
Proceed(t, g) ==
    IF t.stage = "sgdb" /\ ~ TruthyOpt(t.url) /\ Get(g, "source", "") = "steam"
    THEN [t EXCEPT !.stage = "cdn", !.at = "cdn"]
    ELSE Returned(t)

fetchFrame == <<controller, config, game, included, n, games_dict, manual_games, now, op, outputs, merged>>

TaskStart ==
    /\ pc = "fetch"
    /\ CanStart(tasks, config)
    /\ \E i \in DOMAIN tasks :
        /\ tasks[i].state = "queued"
        /\ tasks' = [tasks EXCEPT ![i].state = "running", ![i].at = "lookup"]
    /\ UNCHANGED <<pc, games, cache, cache_file>>
    /\ UNCHANGED fetchFrame

\* get_steamgriddb_cover_url up to the cache check
TaskLookup ==
    /\ pc = "fetch"
    /\ \E i \in DOMAIN tasks :
        /\ tasks[i].at = "lookup"
        /\ LET key == KeyOf(tasks[i], games[i])
           IN  IF get_raises(cache, key)
               THEN /\ tasks' = [tasks EXCEPT ![i] = Raised(@)]
                    /\ cache' = cache
               ELSE LET got == ImageCache_get(cache, key, now, Ttl(config))
                    IN  /\ cache' = got.cache
                        /\ tasks' = [tasks EXCEPT ![i] =
                                       IF TruthyOpt(got.result)
                                       THEN Returned([@ EXCEPT !.url = got.result])
                                       ELSE [@ EXCEPT !.at = "request"]]
    /\ UNCHANGED <<pc, games, cache_file>>
    /\ UNCHANGED fetchFrame

\* the request to the service and its answer
TaskRequest ==
    /\ pc = "fetch"
    /\ \E i \in DOMAIN tasks, resp \in Responses \ {"no_data"} :
        /\ tasks[i].at = "request"
        /\ LET g == games[i]
               url == SgdbUrl(get_steamgriddb_platform(Get(g, "source", ""),
                                                       Get(g, "category", <<>>)), g.appid)
           IN  tasks' = [tasks EXCEPT ![i] =
                   CASE resp = "ok" -> [@ EXCEPT !.url = Some(url), !.val = url, !.at = "set"]
                     [] resp = "not_found" -> [@ EXCEPT !.val = <<>>, !.at = "set"]
                     [] OTHER -> Proceed(@, g)]
    /\ UNCHANGED <<pc, games, cache, cache_file>>
    /\ UNCHANGED fetchFrame

\* ImageCache.set: self.cache[key] = {...}
TaskSet ==
    /\ pc = "fetch"
    /\ \E i \in DOMAIN tasks :
        /\ tasks[i].at = "set"
        /\ cache' = Put(cache, KeyOf(tasks[i], games[i]),
                        [url |-> tasks[i].val, timestamp |-> now])
        /\ tasks' = [tasks EXCEPT ![i].at = "open"]
    /\ UNCHANGED <<pc, games, cache_file>>
    /\ UNCHANGED fetchFrame

\* _save_cache: open(self.cache_file, 'w') truncates the file
TaskOpen ==
    /\ pc = "fetch"
    /\ \E i \in DOMAIN tasks :
        /\ tasks[i].at = "open"
        /\ cache_file' = CorruptFile
        /\ tasks' = [tasks EXCEPT ![i].at = "dump"]
    /\ UNCHANGED <<pc, games, cache>>
    /\ UNCHANGED fetchFrame

\* _save_cache: json.dump(self.cache, f) into the file object's buffer
TaskDump ==
    /\ pc = "fetch"
    /\ \E i \in DOMAIN tasks :
        /\ tasks[i].at = "dump"
        /\ tasks' = [tasks EXCEPT ![i].buf = cache, ![i].at = "close"]
    /\ UNCHANGED <<pc, games, cache, cache_file>>
    /\ UNCHANGED fetchFrame

\* _save_cache: the dump ends and the with block closes the file
TaskClose ==
    /\ pc = "fetch"
    /\ \E i \in DOMAIN tasks :
        /\ tasks[i].at = "close"
        /\ \/ cache_file' = flush(tasks[i].buf, cache_file)
           \/ /\ DOMAIN cache # DOMAIN tasks[i].buf
              /\ cache_file' = flush_interrupted(tasks[i].buf, cache_file)
        /\ tasks' = [tasks EXCEPT ![i] = Proceed([@ EXCEPT !.buf = EmptyMap], games[i])]
    /\ UNCHANGED <<pc, games, cache>>
    /\ UNCHANGED fetchFrame

\* get_steam_cdn_fallback_url up to its set call
TaskCdn ==
    /\ pc = "fetch"
    /\ \E i \in DOMAIN tasks, live \in { {}, {2} } :
        /\ tasks[i].at = "cdn"
        /\ LET key == KeyOf(tasks[i], games[i])
               urls == fallback_urls(games[i].appid)
           IN  IF get_raises(cache, key)
               THEN /\ tasks' = [tasks EXCEPT ![i] = Raised(@)]
                    /\ cache' = cache
               ELSE LET got == ImageCache_get(cache, key, now, Ttl(config))
                    IN  /\ cache' = got.cache
                        /\ tasks' = [tasks EXCEPT ![i] =
                              IF TruthyOpt(got.result)
                              THEN Returned([@ EXCEPT !.url = got.result])
                              ELSE IF live = {}
                              THEN Returned([@ EXCEPT !.url = Some(urls[1])])
                              ELSE [@ EXCEPT !.url = Some(urls[Min(live)]),
                                             !.val = urls[Min(live)], !.at = "set"]]
    /\ UNCHANGED <<pc, games, cache_file>>
    /\ UNCHANGED fetchFrame

\* the as_completed loop: future.result(), then games[idx]["image"] = url;
\* an exception of the task is caught and dropped
TaskApply ==
    /\ pc = "fetch"
    /\ \E i \in DOMAIN tasks :
        /\ tasks[i].state \in {"done", "raised"}
        /\ tasks' = [tasks EXCEPT ![i].state = "applied"]
        /\ games' = apply_result(games, tasks, i)
    /\ UNCHANGED <<pc, cache, cache_file>>
    /\ UNCHANGED fetchFrame

\* (a pool that is left as soon as one result was applied)
AnyTaskFinished(ts) == \E i \in DOMAIN ts : ts[i].state = "applied"

\* the as_completed loop has seen every future
AllTasksFinished(ts) == \A i \in DOMAIN ts : ts[i].state = "applied"

\* the with block of the executor is left and fetch_images_parallel returns
PoolReturn ==
    /\ pc = "fetch"
    /\ AllTasksFinished(tasks)
    /\ pc' = "sort"
    /\ UNCHANGED <<tasks, games, cache, cache_file>>
    /\ UNCHANGED fetchFrame

InitFetch ==
    /\ config \in FetchConfigs
    /\ controller = NoController
    /\ pc = "fetch"
    /\ game = <<>>
    /\ included = TRUE
    /\ n = 0
    /\ games_dict = FetchGames
    /\ manual_games = <<>>
    /\ games = FetchGames
    /\ tasks = [i \in games_to_fetch(FetchGames) |->
                  [state |-> "queued", at |-> "-", url |-> None, val |-> <<>>,
                   stage |-> "sgdb", buf |-> EmptyMap]]
    /\ now = 0
    /\ cache \in {EmptyMap, NoUrlCache}
    /\ cache_file = (IF cache = EmptyMap THEN MissingFile ELSE StoredFile(cache))
    /\ op = NoOp
    /\ outputs = NoOutputs
    /\ merged = <<>>

NextFetch ==
    \/ TaskStart
    \/ TaskLookup
    \/ TaskRequest
    \/ TaskSet
    \/ TaskOpen
    \/ TaskDump
    \/ TaskClose
    \/ TaskCdn
    \/ TaskApply
    \/ PoolReturn

SpecFetch == InitFetch /\ [][NextFetch]_vars

\* Every thread that can take a step is scheduled in the end, and every
\* network call ends.
SpecFetchFair == SpecFetch /\ WF_vars(NextFetch)

---------------------------------------------------------------------------
(* The collectors' records, one call in each behaviour: a desktop file, a shortcut
   of shortcuts.vdf, an [[entries]] table of config.toml, and py_vdf_list's
   listing of a shortcut.  `op` records the call with the declared icon,
   the appid and the files that exist on disk when it runs.  A path is a
   text; a 64-bit integer is kept as its eight bytes, most significant
   first. *)

\* icon_path of resolve_icon_path's loops, in the order they are tried:
\* per directory, per extension, the four hicolor sizes and then the
\* directory itself.
icon_candidates(icon) ==
    LET dirs == << "~/.local/share/icons", "/usr/share/icons", "/usr/share/pixmaps" >>
        exts == << "png", "svg", "jpg", "xpm" >>
        sizes == << "256x256", "128x128", "64x64", "48x48" >>
    IN  [k \in 1..60 |->
            LET d == dirs[((k - 1) \div 20) + 1]
                e == exts[(((k - 1) % 20) \div 5) + 1]
                s == ((k - 1) % 5) + 1
            IN  IF s <= 4
                THEN <<d, "/hicolor/", sizes[s], "/apps/">> \o icon \o <<".", e>>
                ELSE <<d, "/">> \o icon \o <<".", e>>]

resolve_icon_path(icon, disk) ==
    IF icon[1] = "/"
    THEN icon
    ELSE LET found == { k \in 1..60 : icon_candidates(icon)[k] \in disk }
         IN  IF found # {} THEN icon_candidates(icon)[Min(found)] ELSE icon

\* image_path of load_config_entries
box_art_path(box_art_dir, path_box_art) ==
    IF Truthy(path_box_art) /\ Truthy(box_art_dir)
    THEN box_art_dir \o <<"/">> \o path_box_art
    ELSE IF Truthy(path_box_art) THEN expand_path(path_box_art)
    ELSE <<>>

\* struct.Struct('<i').pack: four bytes, least significant first, two's complement
pack_int32(appid) ==
    [k \in 1..4 |->
        IF appid >= 0
        THEN (appid \div (256 ^ (k - 1))) % 256
        ELSE 255 - (((- (appid + 1)) \div (256 ^ (k - 1))) % 256)]

\* binascii.hexlify / bytes.hex: two hexadecimal digits per byte
hexlify(bytes) ==
    [i \in 1..(2 * Len(bytes)) |->
        IF i % 2 = 1 THEN bytes[(i + 1) \div 2] \div 16 ELSE bytes[i \div 2] % 16]

\* bytes.fromhex
fromhex(digits) ==
    [i \in 1..(Len(digits) \div 2) |-> digits[2 * i - 1] * 16 + digits[2 * i]]

\* bytes[::-1]
Reversed(bytes) == [i \in 1..Len(bytes) |-> bytes[Len(bytes) + 1 - i]]

\* int(digits, 16) << 32, as eight bytes
shift_left_32(digits) == fromhex(digits) \o <<0, 0, 0, 0>>

\* a | b on numbers of eight bytes
BitOr(a, b) ==
    [i \in 1..8 |->
        LET bit(k) == IF ((a[i] \div (2 ^ k)) % 2 = 1) \/ ((b[i] \div (2 ^ k)) % 2 = 1)
                      THEN 2 ^ k ELSE 0
        IN  bit(0) + bit(1) + bit(2) + bit(3) + bit(4) + bit(5) + bit(6) + bit(7)]

\* 0x02000000
ShortcutFlag == <<0, 0, 0, 0, 2, 0, 0, 0>>

\* (a conversion that keeps the bytes in the order pack wrote them)
convert_appid_to_long_Unreversed(appid) ==
    BitOr(shift_left_32(hexlify(fromhex(hexlify(pack_int32(appid))))), ShortcutFlag)

\* GameLauncher.convert_appid_to_long
convert_appid_to_long(appid) ==
    LET bin_appid == pack_int32(appid)
        hex_appid == hexlify(bin_appid)
        reversed_hex == hexlify(Reversed(fromhex(hex_appid)))
    IN  BitOr(shift_left_32(reversed_hex), ShortcutFlag)

\* py_vdf_list.convert_appid_to_long
vdf_list_convert_appid_to_long(appid) ==
    LET bin_appid == pack_int32(appid)
        hex_appid == hexlify(bin_appid)
        reversed_hex == hexlify(Reversed(fromhex(hex_appid)))
        long_appid == BitOr(shift_left_32(reversed_hex), ShortcutFlag)
    IN  long_appid

\* The appids of shortcuts.vdf explored: the ends of the signed 32-bit
\* range, the byte boundaries, and values between.
AppIds ==
    { -2147483647 - 1, -2147483647, -16777217, -1234567, -65536, -256, -255,
      -1, 0, 1, 255, 256, 65535, 16777216, 305419896, 2147483647 }

NamedIcon == <<"g","a","m","e">>
AbsoluteIcon == <<"/","o","p","t","/","g",".","p","n","g">>
DeclaredIcons == { <<>>, NamedIcon, AbsoluteIcon }
ArtDir == <<"/","a","r","t">>
ArtFile == <<"b",".","j","p","g">>

\* The files that exist: none; the absolute icon; a hicolor icon and a
\* pixmap of the name; the pixmap alone; the box art.
Disks ==
    { {}, {AbsoluteIcon},
      {icon_candidates(NamedIcon)[22], icon_candidates(NamedIcon)[45]},
      {icon_candidates(NamedIcon)[45]},
      {box_art_path(ArtDir, ArtFile)} }

\* a collector's call, as `op` records it
Collected(name, icon, disk, appid) ==
    [name |-> name, icon |-> icon, disk |-> disk, appid |-> appid]

collectFrame == <<controller, config, included, n, games_dict, manual_games, games, tasks,
                  cache, cache_file, now, outputs, merged>>

ParseDesktopFile ==
    /\ pc = "collect"
    /\ pc' = "collected"
    /\ \E nm \in Names, icon \in DeclaredIcons, disk \in Disks :
        /\ game' = << parse_desktop_file(nm,
                          IF Truthy(icon) THEN resolve_icon_path(icon, disk) ELSE <<>>) >>
        /\ op' = Collected("parse_desktop_file", icon, disk, 0)
    /\ UNCHANGED collectFrame

ProcessShortcutEntry ==
    /\ pc = "collect"
    /\ pc' = "collected"
    /\ \E nm \in Names, icon \in DeclaredIcons, disk \in Disks, appid \in AppIds :
        /\ game' = << process_shortcut_entry(nm, icon, convert_appid_to_long(appid), 0) >>
        /\ op' = Collected("process_shortcut_entry", icon, disk, appid)
    /\ UNCHANGED collectFrame

LoadConfigEntry ==
    /\ pc = "collect"
    /\ pc' = "collected"
    /\ \E nm \in Names, dir \in {<<>>, ArtDir}, art \in {<<>>, ArtFile}, disk \in Disks :
        /\ game' = << config_entry(nm, box_art_path(dir, art)) >>
        /\ op' = Collected("load_config_entries", art, disk, 0)
    /\ UNCHANGED collectFrame

\* py_vdf_list.main, one shortcut: the entry it appends to found_games
ListShortcut ==
    /\ pc = "collect"
    /\ pc' = "collected"
    /\ \E nm \in Names, appid \in AppIds :
        /\ game' = << [name |-> nm, short_appid |-> appid,
                       long_appid |-> vdf_list_convert_appid_to_long(appid),
                       exe |-> <<"/usr/bin/game">>] >>
        /\ op' = Collected("py_vdf_list", <<>>, {}, appid)
    /\ UNCHANGED collectFrame

InitCollect ==
    /\ config = get_default_config
    /\ controller = NoController
    /\ pc = "collect"
    /\ game = <<>>
    /\ included = TRUE
    /\ n = 0
    /\ games_dict = <<>>
    /\ manual_games = <<>>
    /\ games = <<>>
    /\ tasks = <<>>
    /\ now = 0
    /\ cache_file = MissingFile
    /\ cache = EmptyMap
    /\ op = NoOp
    /\ outputs = NoOutputs
    /\ merged = <<>>

NextCollect ==
    \/ ParseDesktopFile
    \/ ProcessShortcutEntry
    \/ LoadConfigEntry
    \/ ListShortcut

SpecCollect == InitCollect /\ [][NextCollect]_vars

---------------------------------------------------------------------------
(* The lighting controller (OpenRGB_Controller.py): start_mode and
   stop_current_mode in the calling thread, and the animation threads
   running mode_sequence_2.  Time passes in seconds: a thread's
   transition and sleep and the caller's join each count the seconds they
   have left or have waited, and no time passes while a thread or the
   caller has a step to take that takes none.  A thread reads self.running
   and self.current_mode in two steps. *)

\* animation_thread.join(timeout=2)
JoinTimeout == 2
\* time.sleep(3) at the end of a colour of mode_sequence_2
SleepSeconds == 3
\* smooth_transition(device, ..., color, 2.0)
TransitionSeconds == 2

RgbModes == {"off", "sequence_2"}

Alive(c) == { i \in DOMAIN c.threads : c.threads[i].at # "exited" }

\* start_mode is called; stop_current_mode clears running and joins the
\* animation thread when it is alive
StartMode ==
    /\ controller.pc = "idle"
    /\ controller.calls < MaxCalls
    /\ \E mode \in RgbModes :
        controller' = [controller EXCEPT
            !.mode = mode,
            !.calls = @ + 1,
            !.running = FALSE,
            !.waited = 0,
            !.pc = IF controller.animation_thread \in Alive(controller)
                   THEN "join" ELSE "assign"]
    /\ UNCHANGED launcherVars

\* the join returns because the thread has ended
JoinReturns ==
    /\ controller.pc = "join"
    /\ controller.animation_thread \notin Alive(controller)
    /\ controller' = [controller EXCEPT !.pc = "assign"]
    /\ UNCHANGED launcherVars

\* the join returns because two seconds have passed
JoinTimesOut ==
    /\ controller.pc = "join"
    /\ controller.waited = JoinTimeout
    /\ controller' = [controller EXCEPT !.pc = "assign"]
    /\ UNCHANGED launcherVars

\* self.current_mode = mode
AssignMode ==
    /\ controller.pc = "assign"
    /\ controller' = [controller EXCEPT !.current_mode = controller.mode, !.pc = "run"]
    /\ UNCHANGED launcherVars

\* self.running = True
AssignRunning ==
    /\ controller.pc = "run"
    /\ controller' = [controller EXCEPT !.running = TRUE, !.pc = "launch"]
    /\ UNCHANGED launcherVars

\* mode_off() in the caller, or a new animation thread is started
Launch ==
    /\ controller.pc = "launch"
    /\ controller' =
          IF controller.mode = "off"
          THEN [controller EXCEPT !.pc = "idle"]
          ELSE [controller EXCEPT
                   !.threads = Append(@, [mode |-> controller.mode, at |-> "while",
                                          left |-> 0, colour |-> 1]),
                   !.animation_thread = Len(controller.threads) + 1,
                   !.pc = "idle"]
    /\ UNCHANGED launcherVars

\* `while self.running ...` (and the same test at the head of a colour)
ReadRunning ==
    /\ \E i \in DOMAIN controller.threads :
        /\ controller.threads[i].at = "while"
        /\ controller' = [controller EXCEPT !.threads[i].at =
                              IF controller.running THEN "mode" ELSE "exited"]
    /\ UNCHANGED launcherVars

\* `... and self.current_mode == "sequence_2"`; the transitions start
ReadMode ==
    /\ \E i \in DOMAIN controller.threads :
        /\ controller.threads[i].at = "mode"
        /\ controller' =
              IF controller.current_mode = controller.threads[i].mode
              THEN [controller EXCEPT !.threads[i].at = "transition",
                                      !.threads[i].left = TransitionSeconds]
              ELSE [controller EXCEPT !.threads[i].at = "exited"]
    /\ UNCHANGED launcherVars

\* the transitions are over (smooth_transition leaves its loop as soon as
\* running is false) and joined; time.sleep(3) begins
TransitionEnds ==
    /\ \E i \in DOMAIN controller.threads :
        /\ controller.threads[i].at = "transition"
        /\ controller.threads[i].left = 0 \/ ~ controller.running
        /\ controller' = [controller EXCEPT !.threads[i].at = "sleep",
                                            !.threads[i].left = SleepSeconds]
    /\ UNCHANGED launcherVars

\* time.sleep(3) returns: the next of the five colours, or the next round
Wakes ==
    /\ \E i \in DOMAIN controller.threads :
        /\ controller.threads[i].at = "sleep"
        /\ controller.threads[i].left = 0
        /\ controller' = [controller EXCEPT !.threads[i].at = "while",
                                            !.threads[i].colour = (@ % 5) + 1]
    /\ UNCHANGED launcherVars

\* a second passes for the join and for every transition and sleep
Elapse ==
    /\ controller.pc \in {"idle", "join"}
    /\ controller.pc = "join"
          => /\ controller.waited < JoinTimeout
             /\ controller.animation_thread \in Alive(controller)
    /\ \A i \in DOMAIN controller.threads :
          /\ controller.threads[i].at \in {"transition", "sleep", "exited"}
          /\ controller.threads[i].at \in {"transition", "sleep"}
                => controller.threads[i].left > 0
          /\ controller.threads[i].at = "transition" => controller.running
    /\ controller.pc = "join" \/ \E i \in DOMAIN controller.threads :
                                     controller.threads[i].at \in {"transition", "sleep"}
    /\ controller' = [controller EXCEPT
          !.waited = IF controller.pc = "join" THEN @ + 1 ELSE @,
          !.threads = [i \in DOMAIN controller.threads |->
                          IF controller.threads[i].at \in {"transition", "sleep"}
                          THEN [controller.threads[i] EXCEPT !.left = @ - 1]
                          ELSE controller.threads[i]]]
    /\ UNCHANGED launcherVars

InitRgb ==
    /\ config = get_default_config
    /\ controller = NoController
    /\ pc = "rgb"
    /\ game = <<>>
    /\ included = TRUE
    /\ n = 0
    /\ games_dict = <<>>
    /\ manual_games = <<>>
    /\ games = <<>>
    /\ tasks = <<>>
    /\ now = 0
    /\ cache_file = MissingFile
    /\ cache = EmptyMap
    /\ op = NoOp
    /\ outputs = NoOutputs
    /\ merged = <<>>

NextRgb ==
    \/ StartMode
    \/ JoinReturns
    \/ JoinTimesOut
    \/ AssignMode
    \/ AssignRunning
    \/ Launch
    \/ ReadRunning
    \/ ReadMode
    \/ TransitionEnds
    \/ Wakes
    \/ Elapse

SpecRgb == InitRgb /\ [][NextRgb]_vars

---------------------------------------------------------------------------
(* Properties *)

TextFields == {"name", "exec", "image", "category"}
TagFields == {"appid", "source"}

\* a field carried as the empty string
IsEmptyField(f, v) ==
    CASE f \in TextFields -> v = <<>>
      [] f \in TagFields -> v = ""
      [] OTHER -> FALSE

Merged == pc \in {"fetch", "sort", "done"}

RecordNamed(gs, name) == gs[CHOOSE i \in DOMAIN gs : gs[i].name = name]

\* C1: when a record of a later source (shortcuts, Heroic, config entries,
\* manual entries) meets a catalog record of its name, every field it
\* carries empty or does not carry keeps the catalog's value, and every
\* field it sets to a non-empty value replaces it.
C1_EmptyFieldsDoNotOverlay ==
    [][ ( /\ pc \in {"shortcuts", "heroic", "config", "manual"}
          /\ pc' = pc
          /\ n' = n + 1
          /\ included'
          /\ game'[1].name \in Keys(games_dict) )
        => LET g == game'[1]
               old == Lookup(games_dict, g.name)
               new == Lookup(games_dict', g.name)
           IN  \A f \in DOMAIN old \cup DOMAIN g :
                 /\ (f \in DOMAIN g /\ ~ IsEmptyField(f, g[f])) => new[f] = g[f]
                 /\ (f \in DOMAIN old /\ (f \notin DOMAIN g \/ IsEmptyField(f, g[f])))
                       => new[f] = old[f]
      ]_vars

HoldsFieldsOf(r, m) == \A f \in DOMAIN m : f \in DOMAIN r /\ r[f] = m[f]

IsLastOfItsName(i) ==
    \A j \in DOMAIN manual_games : j > i => manual_games[j].name # manual_games[i].name

\* C2 as stated: the catalog record named like a manual entry M holds M's
\* value in every field M sets, for every manual entry M.
C2_EveryManualEntryWins ==
    Merged =>
        \A i \in DOMAIN manual_games :
            HoldsFieldsOf(RecordNamed(games, manual_games[i].name), manual_games[i])

\* C2 amended: the catalog record named like a manual entry M holds M's
\* value in every field M sets, when M is the last manual entry of its
\* name; whatever the other sources emitted, through fetch and sort.
C2_LastManualEntryWins ==
    Merged =>
        \A i \in DOMAIN manual_games :
            IsLastOfItsName(i) =>
                HoldsFieldsOf(RecordNamed(games, manual_games[i].name), manual_games[i])

\* a finished catalog in which a manual entry that sets favorite was laid
\* over a record another source emitted (which brought the appid)
C2_Witness ==
    /\ pc = "done"
    /\ \E i \in DOMAIN manual_games :
        LET r == RecordNamed(games, manual_games[i].name)
        IN  /\ "favorite" \in DOMAIN manual_games[i]
            /\ manual_games[i].favorite
            /\ "appid" \in DOMAIN r
            /\ r.favorite

NoTwoOfAName(gs) == \A i, j \in DOMAIN gs : gs[i].name = gs[j].name => i = j

\* C3: no two records of the catalog have the same name, in games_dict
\* while it is built and in the list merge_games returns, through
\* fetch_images_parallel and sort_games.
C3_NameUnique == NoTwoOfAName(games_dict) /\ NoTwoOfAName(games)

\* a finished catalog of two records, one of them named by two manual
\* entries (one source emitting a name twice) and brought by another source
C3_Witness ==
    /\ pc = "done"
    /\ Len(games) = 2
    /\ Len(manual_games) = 2
    /\ manual_games[1].name = manual_games[2].name
    /\ "appid" \in DOMAIN RecordNamed(games, manual_games[1].name)

\* the catalog as a mapping from names to records
AsMapping(d) == { d[i] : i \in DOMAIN d }

\* C4: the merged catalog, as a mapping, is the same for every order of the
\* records inside a collector's list.
C4_OrderInsensitive == [][AsMapping(merged') = AsMapping(merged)]_vars

\* C5: a resolution of a key that holds a stored empty value within the
\* TTL sends no request and returns no result.
C5_NegativeHitSendsNoRequest ==
    [][ ( /\ op'.name = "get_steamgriddb_cover_url"
          /\ op'.key \in DOMAIN cache
          /\ cache[op'.key].url = <<>>
          /\ now - cache[op'.key].timestamp <= Ttl(config) )
        => (op'.requests = <<>> /\ op'.result = None)
      ]_vars

\* C6: get(key) returns absent for a key that is not stored and leaves the
\* cache alone; for an entry older than the TTL it returns absent and
\* removes that entry only; for an entry within the TTL it returns the
\* stored value and leaves the cache alone.
C6_GetHonoursTtl ==
    [][ op'.name = "get"
        => LET k == op'.key
           IN  /\ k \notin DOMAIN cache => (op'.result = None /\ cache' = cache)
               /\ (k \in DOMAIN cache /\ now - cache[k].timestamp > Ttl(config))
                     => /\ op'.result = None
                        /\ DOMAIN cache' = DOMAIN cache \ {k}
                        /\ \A x \in DOMAIN cache' : cache'[x] = cache[x]
               /\ (k \in DOMAIN cache /\ now - cache[k].timestamp <= Ttl(config))
                     => (op'.result = Some(cache[k].url) /\ cache' = cache)
      ]_vars

\* a get that found an entry older than the TTL, returned absent and
\* removed it
C6_Witness ==
    /\ op.name = "get"
    /\ op.seen # None
    /\ now - op.seen[1].timestamp > Ttl(config)
    /\ op.result = None
    /\ op.key \notin DOMAIN cache

\* C7: after a set whose store write succeeded, the store file holds
\* exactly the in-memory map, the entry just set included.
C7_SetPersistsWholeMap ==
    (op.name = "set" /\ op.outcome = "saved")
        => /\ cache_file = StoredFile(cache)
           /\ op.key \in DOMAIN cache
           /\ cache[op.key] = [url |-> op.result[1], timestamp |-> now]

\* a successful set after a get evicted an entry in memory only: the
\* rewrite drops that entry from the file and keeps the other key
C7_Witness ==
    /\ op.name = "set"
    /\ op.outcome = "saved"
    /\ Cardinality(DOMAIN cache) = 2
    /\ now > 0
    /\ \E k \in DOMAIN cache : cache[k].timestamp < now

FavoritesFirst(gs) ==
    \A i, j \in DOMAIN gs :
        (Get(gs[i], "favorite", FALSE) /\ ~ Get(gs[j], "favorite", FALSE)) => i < j

\* C8: with show_favorites_first, every favorite of the sorted catalog
\* precedes every record that is not a favorite.
C8_FavoritesPrecedeOthers ==
    (pc = "done" /\ config.behavior.show_favorites_first) => FavoritesFirst(games)

\* C9: every record of the merged catalog satisfies should_include_game.
C9_CatalogPassesFilter ==
    Merged => \A i \in DOMAIN games : should_include_game(games[i], config)

\* the rules of the filter, each stated on its own
CategoryRuleDrops(g) ==
    \E c \in config.filtering.exclude_categories :
        "category" \in DOMAIN g /\ g.category = c

KeywordRuleDrops(g) ==
    \E k \in config.filtering.exclude_keywords :
        \E at \in 0..(Len(g.name) - Len(k)) :
            \A j \in 1..Len(k) : LowerChar(g.name[at + j]) = LowerChar(k[j])

GamesOnlyRuleDrops(g) == config.filtering.games_only /\ GamesOnlyDrops(g)

\* C10: should_include_game returns false for a record whose category is
\* in exclude_categories, and for a record whose name holds an excluded
\* keyword as a substring whatever the case of the letters; it returns
\* true exactly when none of the games_only, category and keyword rules
\* drops the record.
C10_FilterComposition ==
    (game # <<>> /\ pc \in {"steam", "shortcuts", "heroic", "config", "desktop"})
        => LET g == game[1]
           IN  /\ CategoryRuleDrops(g) => ~ included
               /\ KeywordRuleDrops(g) => ~ included
               /\ included <=>
                    ~ (GamesOnlyRuleDrops(g) \/ CategoryRuleDrops(g) \/ KeywordRuleDrops(g))

\* a record of an excluded category that no keyword rule matches was dropped
C10_Witness ==
    /\ game # <<>>
    /\ pc = "desktop"
    /\ CategoryRuleDrops(game[1])
    /\ ~ KeywordRuleDrops(game[1])
    /\ ~ included
    /\ game[1].name \notin Keys(games_dict)

NativeRecord(g) ==
    /\ Get(g, "source", "") = "steam"
    /\ Get(g, "category", <<>>) = CatSteam
    /\ Get(g, "appid", "") # ""

\* C18: with the image service disabled or without API key, and CDN
\* fallback permitted, every native (Steam) record of the finished catalog
\* carries a CDN image reference, whatever parallel_requests is.
C18_DisabledServiceFallsBackToCdn ==
    ( /\ pc = "done"
      /\ ~ config.steamgriddb.enabled \/ ~ config.steamgriddb.api_key
      /\ config.steamgriddb.fallback_to_steam )
        => \A i \in DOMAIN games :
              NativeRecord(games[i]) => IsSteamstatic(Get(games[i], "image", <<>>))

\* C19: a record carries a CDN URL only if it has the source tag of the
\* native platform and the configuration permits the CDN fallback, in the
\* catalog while it is merged (sequential path) and after the fetch stage
\* (parallel path).
C19_CdnOnlyWhenPermitted ==
    \A gs \in {games_dict, games} :
        \A i \in DOMAIN gs :
            IsSteamstatic(Get(gs[i], "image", <<>>))
                => /\ config.steamgriddb.fallback_to_steam
                   /\ \/ Get(gs[i], "source", "") = "steam"
                      \/ Get(gs[i], "appid", "") \in {AppIdOf(nm) : nm \in Names}

\* a resolution that finds a non-empty value stored within the TTL
FreshHit(c, k) ==
    /\ k \in DOMAIN c
    /\ c[k].url # <<>>
    /\ now - c[k].timestamp <= Ttl(config)

\* C20: a resolution the service answers with success returns the image's
\* URL and stores it under the key with the time of the call; a resolution
\* of a key that holds a non-empty value within the TTL returns that value
\* and sends no request.
C20_SuccessIsCachedAndReused ==
    [][ op'.name = "get_steamgriddb_cover_url"
        => LET k == op'.key
           IN  /\ (~ FreshHit(cache, k) /\ op'.response = "ok")
                     => /\ op'.result = Some(SgdbUrl("steam", "10"))
                        /\ k \in DOMAIN cache'
                        /\ cache'[k] = [url |-> SgdbUrl("steam", "10"), timestamp |-> now]
               /\ FreshHit(cache, k)
                     => /\ op'.requests = <<>>
                        /\ op'.result = Some(cache[k].url)
                        /\ cache' = cache
      ]_vars

\* a resolution at a later tick that returned the URL an earlier answer
\* stored, without a request
C20_Witness ==
    /\ op.name = "get_steamgriddb_cover_url"
    /\ op.requests = <<>>
    /\ op.result = Some(SgdbUrl("steam", "10"))
    /\ op.seen # None
    /\ op.seen[1].timestamp > 0
    /\ now > op.seen[1].timestamp

\* the input records of a name, over all six lists
InputsNamed(o, name) ==
    UNION { { o[src][i] : i \in { j \in DOMAIN o[src] : o[src][j].name = name } }
            : src \in DOMAIN o }

\* C15: every record of the merged catalog has the name of an input
\* record, and each of its fields holds the value some input record of
\* that name carries in that field.
C15_NothingFabricated ==
    \A i \in DOMAIN merged :
        /\ InputsNamed(outputs, merged[i].name) # {}
        /\ \A f \in DOMAIN merged[i] :
              \E r \in InputsNamed(outputs, merged[i].name) :
                  f \in DOMAIN r /\ r[f] = merged[i][f]

\* a merged record put together from several input records: no input
\* record equals it
C15_Witness ==
    \E i \in DOMAIN merged :
        /\ merged[i] \notin InputsNamed(outputs, merged[i].name)
        /\ Cardinality(InputsNamed(outputs, merged[i].name)) >= 3

\* the sources that overlay, in the order of their loops
OverlayOrder == <<"steam", "shortcuts", "heroic", "config", "manual">>

\* the records of a source's list that have the name, carry the field and
\* reach the catalog (manual entries are not filtered)
Setters(o, cfg, src, name, f) ==
    { i \in DOMAIN o[src] :
        /\ o[src][i].name = name
        /\ f \in DOMAIN o[src][i]
        /\ (src = "manual" \/ should_include_game(o[src][i], cfg)) }

Max(S) == CHOOSE x \in S : \A y \in S : y <= x

SettingSources(o, cfg, name, f) ==
    { k \in DOMAIN OverlayOrder : Setters(o, cfg, OverlayOrder[k], name, f) # {} }

\* the value of the last record of the latest of the sources `srcs`
LastWritten(o, cfg, name, f, srcs) ==
    LET src == OverlayOrder[Max(srcs)]
    IN  o[src][Max(Setters(o, cfg, src, name, f))][f]

\* C16: for every name and every field that records of that name which
\* pass the filter carry in one or more of the sources Steam, shortcuts,
\* Heroic, config entries and manual entries, the merged record holds the
\* value of the source that is latest in that order.
C16_LastWriterWins ==
    \A name \in Names :
        \A f \in TextFields \cup TagFields \cup {"favorite", "last_played", "playtime"} :
            LET srcs == SettingSources(outputs, config, name, f)
            IN  srcs # {}
                => /\ name \in Keys(merged)
                   /\ f \in DOMAIN Lookup(merged, name)
                   /\ Lookup(merged, name)[f] = LastWritten(outputs, config, name, f, srcs)

\* a name whose category three or more of the sources set, under a filter
\* that is active
C16_Witness ==
    /\ config.filtering.exclude_keywords # {}
    /\ \E name \in Names :
          Cardinality(SettingSources(outputs, config, name, "category")) >= 3

\* C12: whatever the store file holds, the construction of GameLauncher
\* and the run of get_all_games do not raise.
C12_BadStoreNeverRaises == pc # "raised"

Queued(ts) == { i \in DOMAIN ts : ts[i].state = "queued" }

\* C11: never more than max_workers tasks are running, and while tasks are
\* queued and fewer than max_workers are running, a queued task can start.
C11_BoundedWorkConserving ==
    pc = "fetch"
        => /\ Cardinality(Running(tasks)) <= config.steamgriddb.max_workers
           /\ (Queued(tasks) # {}
               /\ Cardinality(Running(tasks)) < config.steamgriddb.max_workers)
                 => ENABLED TaskStart

\* the pool is full with two tasks in their requests while a third waits
C11_Witness ==
    /\ pc = "fetch"
    /\ config.steamgriddb.max_workers = 2
    /\ Cardinality({ i \in Running(tasks) : tasks[i].at = "request" }) = 2
    /\ Queued(tasks) # {}

\* the tasks that have the store file open for writing
Writers(ts) == { i \in DOMAIN ts : ts[i].at \in {"dump", "close"} }

\* the store parses (or was never written) and holds every entry of the map
StoreHolds(file, c) ==
    /\ file.state # "corrupt"
    /\ \A k \in DOMAIN c : k \in DOMAIN file.data /\ file.data[k] = c[k]

\* C13: at most one task has the store file open for writing at a time,
\* and when fetch_images_parallel has returned the store is well formed
\* and holds every entry that was set.
C13_StoreWritesSerialized ==
    /\ Cardinality(Writers(tasks)) <= 1
    /\ pc = "sort" => StoreHolds(cache_file, cache)

\* C14: fetch_images_parallel returns only when every task has completed
\* and been handled, with the result of every task that returned a URL
\* written to its record, tasks that raised notwithstanding; and it does
\* return.
C14_WaitsForAllAndReturns ==
    /\ [](pc = "sort"
             => \A i \in DOMAIN tasks :
                    /\ tasks[i].state = "applied"
                    /\ (tasks[i].at # "raised" /\ TruthyOpt(tasks[i].url))
                          => games[i].image = tasks[i].url[1])
    /\ <>(pc = "sort")

\* the stage has returned after one task raised and the others had their
\* URLs applied
C14_Witness ==
    /\ pc = "sort"
    /\ \E i \in DOMAIN tasks : tasks[i].at = "raised"
    /\ \E i, j \in DOMAIN tasks :
          /\ i # j
          /\ TruthyOpt(tasks[i].url) /\ games[i].image = tasks[i].url[1]
          /\ TruthyOpt(tasks[j].url) /\ games[j].image = tasks[j].url[1]

\* the answers of the service that are failures other than a 404
FailedAnswers == {"no_data", "error"}

\* the entry of key k has outlived the TTL
Outlived(c, k) == k \in DOMAIN c /\ now - c[k].timestamp > Ttl(config)

\* C21 as stated: a resolution the service fails (timeout, connection
\* failure, non-404 status, unparsable body, answer without success flag
\* or data) leaves the cache unchanged in memory and on disk and returns
\* no result.
C21_FailureLeavesCacheUnchanged ==
    [][ (op'.name = "get_steamgriddb_cover_url" /\ op'.response \in FailedAnswers)
        => /\ op'.result = None
           /\ cache' = cache
           /\ cache_file' = cache_file
      ]_vars

\* C21: a resolution the service fails with anything but a 404 returns no
\* result, leaves the store on disk unchanged and stores no entry; in
\* memory it changes nothing but the key's own entry, which the lookup
\* removes when it had outlived the TTL.
C21_FailureStoresNothing ==
    [][ (op'.name = "get_steamgriddb_cover_url" /\ op'.response \in FailedAnswers)
        => /\ op'.result = None
           /\ cache_file' = cache_file
           /\ cache' = IF Outlived(cache, op'.key) THEN Remove(cache, op'.key) ELSE cache
      ]_vars

\* a failed resolution whose lookup had found the key's entry outlived:
\* the entry is gone from memory and still in the store
C21_Witness ==
    /\ op.name = "get_steamgriddb_cover_url"
    /\ op.response = "error"
    /\ op.result = None
    /\ op.seen # None
    /\ now - op.seen[1].timestamp > Ttl(config)
    /\ op.key \notin DOMAIN cache
    /\ cache_file.state = "ok"
    /\ op.key \in DOMAIN cache_file.data

\* the key under which the service's answer for record g is stored
ServiceKey(g) ==
    SgdbKey(get_steamgriddb_platform(Get(g, "source", ""), Get(g, "category", <<>>)),
            g.appid)

C23_ProbesInOrderUntilFirstAnswer ==
    [][ (op'.name = "get_steam_cdn_fallback_url" /\ ~ FreshHit(cache, op'.key))
        => LET urls == fallback_urls("10")
               sent == op'.requests
               last == Len(sent)
           IN  /\ last \in 1..Len(urls)
               /\ sent = SubSeq(urls, 1, last)
               /\ \A j \in 1..(last - 1) : j \notin op'.response
               /\ IF last \in op'.response
                  THEN /\ op'.result = Some(urls[last])
                       /\ op'.key \in DOMAIN cache'
                       /\ cache'[op'.key] = [url |-> urls[last], timestamp |-> now]
                  ELSE /\ last = Len(urls)
                       /\ op'.result = Some(urls[1])
                       /\ cache_file' = cache_file
                       /\ \A k \in DOMAIN cache' : k \in DOMAIN cache /\ cache'[k] = cache[k]
      ]_vars

\* a call that probed three URLs, the third of which answered, and stored it
C23_Witness ==
    /\ op.name = "get_steam_cdn_fallback_url"
    /\ op.response = {3, 4}
    /\ op.requests = SubSeq(fallback_urls("10"), 1, 3)
    /\ op.result = Some(fallback_urls("10")[3])
    /\ op.key \in DOMAIN cache
    /\ cache[op.key].url = fallback_urls("10")[3]

\* the handled task of record i returned a URL
TaskGaveUrl(i) ==
    /\ tasks[i].state = "applied"
    /\ tasks[i].at # "raised"
    /\ TruthyOpt(tasks[i].url)

\* the handled task of record i returned no URL, or raised
TaskFailed(i) ==
    /\ tasks[i].state = "applied"
    /\ (tasks[i].at = "raised" \/ ~ TruthyOpt(tasks[i].url))

\* C24: a record whose task returned no URL or raised keeps the record it
\* had when the stage started, and the stage returns a catalog of the same
\* records, none missing.
C24_FailedTaskLeavesRecord ==
    /\ \A i \in DOMAIN tasks : TaskFailed(i) => games[i] = games_dict[i]
    /\ pc = "sort"
          => /\ Len(games) = Len(games_dict)
             /\ \A i \in DOMAIN games : games[i].name = games_dict[i].name

\* the stage has returned; the task of the Epic record had returned no URL
\* and its image is still empty, while another record got its URL
C24_Witness ==
    /\ pc = "sort"
    /\ \E i \in DOMAIN tasks :
          /\ tasks[i].at # "raised"
          /\ tasks[i].url = None
          /\ games_dict[i].image = <<>>
          /\ games[i].image = <<>>
    /\ \E j \in DOMAIN tasks : TaskGaveUrl(j) /\ games[j].image # <<>>

\* the URLs a task of record g can return
UrlsOf(g) ==
    { SgdbUrl(get_steamgriddb_platform(Get(g, "source", ""), Get(g, "category", <<>>)),
              g.appid) }
    \cup { fallback_urls(g.appid)[k] : k \in 1..4 }

\* C25: in every interleaving of the tasks and in every order of
\* completion, a record's image is the URL its own task returned, built
\* from the record's own appid, or the image it had when no URL was
\* returned (yet); the catalog is a function of the tasks' results alone.
C25_OwnResultOnly ==
    \A i \in DOMAIN games :
        IF i \in DOMAIN tasks /\ TaskGaveUrl(i)
        THEN /\ games[i] = SetImage(games_dict[i], tasks[i].url[1])
             /\ tasks[i].url[1] \in UrlsOf(games_dict[i])
        ELSE games[i] = games_dict[i]

\* a later record's task completed and was handled first: it has its own
\* URL while an earlier record's task has not finished
C25_Witness ==
    \E i, j \in DOMAIN tasks :
        /\ i < j
        /\ TaskGaveUrl(j)
        /\ games[j].image = tasks[j].url[1]
        /\ tasks[i].state \in {"queued", "running"}
        /\ games[i] = games_dict[i]

\* C28: a step of fetch_images_parallel changes no record but in its image
\* field, changes no record that was not eligible when the stage started,
\* and keeps the number and the order of the records.
C28_OnlyImagesOfEligibleChange ==
    [][ pc = "fetch"
        => /\ Len(games') = Len(games)
           /\ \A i \in DOMAIN games :
                /\ DOMAIN games'[i] \ {"image"} = DOMAIN games[i] \ {"image"}
                /\ \A f \in DOMAIN games[i] \ {"image"} : games'[i][f] = games[i][f]
                /\ i \notin games_to_fetch(games_dict) => games'[i] = games[i]
      ]_vars

\* the stage has returned: an eligible record got another image, and the
\* catalog holds a record that was not eligible, with the image it had
C28_Witness ==
    /\ pc = "sort"
    /\ \E i \in games_to_fetch(games_dict) : games[i].image # games_dict[i].image
    /\ \E j \in DOMAIN games \ games_to_fetch(games_dict) :
          /\ Truthy(Get(games[j], "image", <<>>))
          /\ games[j] = games_dict[j]

\* the record is of a plain category and nothing marks it as a storefront
\* entry: no appid, no storefront name
PlainShortcut(g) ==
    /\ Lower(Get(g, "category", <<>>)) \in {CatLauncher, CatDesktop}
    /\ Get(g, "appid", "") = ""
    /\ ~ Contains(Lower(Get(g, "name", <<>>)), PatSteam)
    /\ ~ Contains(Lower(Get(g, "name", <<>>)), PatHeroic)

\* the lowercased name holds a keyword of the deny-list
Denied(g) == \E p \in exclude_patterns : Contains(Lower(Get(g, "name", <<>>)), p)

\* C26: with games_only, a record of category launcher or desktop is
\* dropped unless it carries an appid or its name holds a storefront's
\* name, in which case it passes the category rule; a record whose
\* lowercased name holds a deny-list keyword is dropped whatever its
\* category; no other record is dropped.
C26_GamesOnlyRule ==
    (/\ game # <<>>
     /\ pc \in {"steam", "shortcuts", "heroic", "config", "desktop"}
     /\ config.filtering.games_only)
        => (included <=> ~ (PlainShortcut(game[1]) \/ Denied(game[1])))

\* the calls that emit a record of the catalog
CollectorCalls == {"parse_desktop_file", "process_shortcut_entry", "load_config_entries"}

\* C27: the image of every record a collector emits is empty or a path
\* that exists on disk when the record is collected; a declared icon that
\* is not found gives an empty image.
C27_ImageEmptyOrOnDisk ==
    op.name \in CollectorCalls
        => \/ game[1].image = <<>>
           \/ game[1].image \in op.disk

\* the eight bytes of ((appid mod 2^32) * 2^32) | 0x02000000
ExpectedLong(appid) ==
    << (appid \div 16777216) % 256, (appid \div 65536) % 256, (appid \div 256) % 256,
       appid % 256, 2, 0, 0, 0 >>

\* C30: for every appid of the signed 32-bit range convert_appid_to_long
\* gives ((appid mod 2^32) * 2^32) | 0x02000000, in backend.py and in
\* py_vdf_list.py alike.
C30_LongAppId ==
    /\ op.name = "process_shortcut_entry"
          => /\ game[1].appid = ExpectedLong(op.appid)
             /\ game[1].appid = vdf_list_convert_appid_to_long(op.appid)
    /\ op.name = "py_vdf_list"
          => /\ game[1].long_appid = ExpectedLong(op.appid)
             /\ game[1].long_appid = convert_appid_to_long(op.appid)

\* the shortcut of appid -1234567 (0xFFED2979) was collected with the
\* long appid 0xFFED297902000000
C30_Witness ==
    /\ op.name = "process_shortcut_entry"
    /\ op.appid = -1234567
    /\ game[1].appid = <<255, 237, 41, 121, 2, 0, 0, 0>>

\* the animation threads that are changing the colours of the devices
Driving(c) == { i \in DOMAIN c.threads : c.threads[i].at = "transition" }

\* C29: after any sequence of start_mode calls at most one animation
\* thread drives the devices at any time, the previous thread having left
\* its loop before the next one starts, join timeout or not.
C29_OneAnimationThread == Cardinality(Driving(controller)) <= 1

====
